---- MODULE Spec2Model ----
(***************************************************************************)
(* The read-only SQLite 3 B-tree reader of claude-monitor (firefox.go):    *)
(* newSQLiteDB, page, readVarint, parseRecord, leafCellPayload,            *)
(* walkTableBTree, findTableRootPage and parseCookiesFromSQLite; the tray  *)
(* application of main.go (startUpdate, the Quit handler, doUpdate); and   *)
(* the retrying fetchUsage.                                                *)
(*                                                                         *)
(* Bytes are 0..255, a Go []byte is a sequence of bytes addressed from 0   *)
(* (element i of the slice is s[i+1]).  A Go int64 / int (GOARCH=amd64) is *)
(* kept as its 64-bit two's-complement pattern, a tuple of 8 bytes, most   *)
(* significant first, so that shifts and products wrap as they do in Go.   *)
(***************************************************************************)
EXTENDS Integers, Sequences, FiniteSets, TLC

VARIABLES
    data,      \* sqliteDB.data: the file image handed to parseCookiesFromSQLite
    pageSize,  \* sqliteDB.pageSize
    pc,        \* where parseCookiesFromSQLite (or a function harness) is
    stack,     \* the activation records of walkTableBTree, innermost last
    root,      \* findTableRootPage's captured variable root
    cookies,   \* parseCookiesFromSQLite's map cookies
    visited,   \* history: every invocation of the callback fn, in order
    entered,   \* history: every call of walkTableBTree (walk and page number)
    fault,     \* "none", or the run-time panic that ended the program
    buf,       \* harness: the byte slice passed to the function under test
    pos,       \* harness: the position passed to readVarint
    src,       \* harness: what the input was built from (a value, the columns)
    out,       \* harness: what the function under test returned
    cancelUpdate, \* main.go: the cancel function of the current update (0: nil)
    updateMu,     \* main.go: "free", or the goroutine that holds the mutex
    ctxErr,       \* per context made by startUpdate: is ctx.Err() non-nil
    goroutine,    \* the menu-click and the auto-update goroutine of onReady
    updating,     \* per context: the doUpdate goroutine started with it
    display,      \* per tray element: the update that set it last (0: onReady)
    systray       \* "running", "quitting" after systray.Quit(), "exited"

\* the state of the tray application (main.go)
trayVars == <<cancelUpdate, updateMu, ctxErr, goroutine, updating, display,
              systray>>

\* the state of the SQLite reader and of the function harnesses
readerVars == <<data, pageSize, pc, stack, root, cookies, visited, entered,
                fault, buf, pos, src, out>>

vars == <<readerVars, trayVars>>

\* the goroutines onReady starts, each with its position and the context
\* (or cancel function) it holds in a local variable
Goroutines == {"menu", "auto"}

\* the tray elements doUpdate sets
Elements == {"icon", "tooltip", "mSession", "mWeekly", "mSonnet"}

\* the tray when onReady has returned: no update yet, both goroutines
\* waiting (for a click, in time.Sleep)
TrayReady ==
    /\ cancelUpdate = 0
    /\ updateMu = "free"
    /\ ctxErr = <<>>
    /\ goroutine = [g \in Goroutines |-> [pc |-> "idle", ctx |-> 0]]
    /\ updating = <<>>
    /\ display = [e \in Elements |-> 0]
    /\ systray = "running"

\* ------------------------------------------------------------------------
\* 64-bit integers as byte patterns
\* ------------------------------------------------------------------------

I64Zero == <<0, 0, 0, 0, 0, 0, 0, 0>>

I64MinusOne == <<255, 255, 255, 255, 255, 255, 255, 255>>

\* int64(n) for a small natural n (n < 2^31)
I64(n) == [k \in 1..8 |-> IF k <= 4 THEN 0 ELSE (n \div (256 ^ (8 - k))) % 256]

I64IsNeg(v) == v[1] >= 128

\* a + b modulo 2^64
RECURSIVE I64AddFrom(_, _, _, _)
I64AddFrom(a, b, k, carry) ==
    IF k = 0 THEN <<>>
    ELSE LET s == a[k] + b[k] + carry
         IN  Append(I64AddFrom(a, b, k - 1, s \div 256), s % 256)

I64Add(a, b) == I64AddFrom(a, b, 8, 0)

\* v * m modulo 2^64, for a small natural m (m <= 65536)
RECURSIVE I64MulFrom(_, _, _, _)
I64MulFrom(v, m, k, carry) ==
    IF k = 0 THEN <<>>
    ELSE LET s == v[k] * m + carry
         IN  Append(I64MulFrom(v, m, k - 1, s \div 256), s % 256)

I64Mul(v, m) == I64MulFrom(v, m, 8, 0)

\* The largest magnitude the model keeps exactly when a 64-bit value is used
\* as a Go int in a comparison with a slice length or offset (all of which
\* are below 2^17 here): a value at or beyond it compares like Huge, a
\* negative value compares like -1.
Huge == 2 ^ 30

I64ToInt(v) ==
    IF I64IsNeg(v) THEN -1
    ELSE IF v[1] # 0 \/ v[2] # 0 \/ v[3] # 0 \/ v[4] # 0 \/ v[5] >= 64 THEN Huge
    ELSE ((v[5] * 256 + v[6]) * 256 + v[7]) * 256 + v[8]

\* (v << 7) | x  for x < 128
Shl7Or(v, x) ==
    [k \in 1..8 |-> IF k < 8 THEN (v[k] % 2) * 128 + (v[k + 1] \div 2)
                    ELSE (v[8] % 2) * 128 + x]

\* (v << 8) | b
Shl8Or(v, b) == [k \in 1..8 |-> IF k < 8 THEN v[k + 1] ELSE b]

\* (iv << shift) >> shift for shift = 64 - size*8: the low size bytes of iv,
\* sign-extended (>> on int64 is an arithmetic shift)
SignExtend(iv, size) ==
    LET shifted == [k \in 1..8 |-> IF k <= size THEN iv[8 - size + k] ELSE 0]
        fill    == IF shifted[1] >= 128 THEN 255 ELSE 0
    IN  [k \in 1..8 |-> IF k <= 8 - size THEN fill ELSE shifted[k - (8 - size)]]

\* ------------------------------------------------------------------------
\* readVarint
\* ------------------------------------------------------------------------

\* The loop of readVarint at iteration i with accumulator v.  rd is the
\* number of bytes data[pos], data[pos+1], ... the call has read.
RECURSIVE readVarintLoop(_, _, _, _)
readVarintLoop(d, p, i, v) ==
    IF ~(i < 9 /\ p + i < Len(d))
    THEN [v |-> I64Zero, n |-> 0, rd |-> i]
    ELSE LET b == d[p + i + 1]
         IN  IF i = 8
             THEN [v |-> Shl8Or(v, b), n |-> 9, rd |-> i + 1]
             ELSE LET v2 == Shl7Or(v, b % 128)
                  IN  IF b \div 128 = 0
                      THEN [v |-> v2, n |-> i + 1, rd |-> i + 1]
                      ELSE readVarintLoop(d, p, i + 1, v2)

\* mutant: the 9th byte is treated like the first eight (7 bits, flag honoured)
RECURSIVE readVarintLoopNo9th(_, _, _, _)
readVarintLoopNo9th(d, p, i, v) ==
    IF ~(i < 9 /\ p + i < Len(d))
    THEN [v |-> I64Zero, n |-> 0, rd |-> i]
    ELSE LET b  == d[p + i + 1]
             v2 == Shl7Or(v, b % 128)
         IN  IF b \div 128 = 0
             THEN [v |-> v2, n |-> i + 1, rd |-> i + 1]
             ELSE readVarintLoopNo9th(d, p, i + 1, v2)

readVarintNo9th(d, p) == readVarintLoopNo9th(d, p, 0, I64Zero)

\* mutant: a buffer that ends inside the varint yields what was read so far
RECURSIVE readVarintLoopPartial(_, _, _, _)
readVarintLoopPartial(d, p, i, v) ==
    IF ~(i < 9 /\ p + i < Len(d))
    THEN [v |-> v, n |-> i, rd |-> i]
    ELSE LET b == d[p + i + 1]
         IN  IF i = 8
             THEN [v |-> Shl8Or(v, b), n |-> 9, rd |-> i + 1]
             ELSE LET v2 == Shl7Or(v, b % 128)
                  IN  IF b \div 128 = 0
                      THEN [v |-> v2, n |-> i + 1, rd |-> i + 1]
                      ELSE readVarintLoopPartial(d, p, i + 1, v2)

readVarintPartial(d, p) == readVarintLoopPartial(d, p, 0, I64Zero)

readVarint(d, p) == readVarintLoop(d, p, 0, I64Zero)

\* ------------------------------------------------------------------------
\* parseRecord
\* ------------------------------------------------------------------------

\* the zero value of sqliteVal
ZeroVal == [text |-> <<>>, intV |-> I64Zero, isInt |-> FALSE, isNull |-> FALSE]

\* s[lo:hi] of Go: panics unless 0 <= lo <= hi <= len(s)
SliceOK(s, lo, hi) == 0 <= lo /\ lo <= hi /\ hi <= Len(s)

\* mutant: the slice starts one byte early
SliceOneEarly(s, lo, hi) == IF SliceOK(s, lo, hi) THEN SubSeq(s, lo, hi) ELSE <<>>

Slice(s, lo, hi) == IF SliceOK(s, lo, hi) THEN SubSeq(s, lo + 1, hi) ELSE <<>>

\* One iteration of the loop "for pos := n; pos < int(hdrLen);" that collects
\* the serial types.  s holds the locals: p (pos), types, hi (one past the
\* highest payload index read so far) and done (the loop has been left).
readTypesStep(payload, hdrLen, s) ==
    IF s.done \/ ~(s.p < hdrLen) THEN [s EXCEPT !.done = TRUE]
    ELSE LET r   == readVarint(payload, s.p)
             hi2 == IF s.p + r.rd > s.hi THEN s.p + r.rd ELSE s.hi
         IN  IF r.n = 0 THEN [s EXCEPT !.hi = hi2, !.done = TRUE]
             ELSE [p |-> s.p + r.n, types |-> Append(s.types, r.v), hi |-> hi2,
                   done |-> FALSE]

\* k iterations of that loop from the locals s; the first half is evaluated
\* before the second starts from its result
RECURSIVE readTypesLoop(_, _, _, _)
readTypesLoop(payload, hdrLen, s, k) ==
    IF k = 0 THEN s
    ELSE IF k = 1 THEN readTypesStep(payload, hdrLen, s)
    ELSE CHOOSE r \in { readTypesLoop(payload, hdrLen, x, k - (k \div 2)) :
                            x \in {readTypesLoop(payload, hdrLen, s, k \div 2)} } : TRUE

\* the whole loop: every iteration advances pos, so hdrLen - p iterations
\* and the test that ends it are enough
readTypes(payload, p, hdrLen, types, hi) ==
    LET s == readTypesLoop(payload, hdrLen,
                           [p |-> p, types |-> types, hi |-> hi, done |-> FALSE],
                           hdrLen - p + 1)
    IN  [types |-> s.types, hi |-> s.hi]

\* for _, b := range payload[dataPos:dataPos+size] { iv = (iv << 8) | int64(b) }
RECURSIVE foldBigEndian(_, _, _)
foldBigEndian(bytes, k, iv) ==
    IF k > Len(bytes) THEN iv ELSE foldBigEndian(bytes, k + 1, Shl8Or(iv, bytes[k]))

\* sizes := [7]int{0, 1, 2, 3, 4, 6, 8}
sizes == <<0, 1, 2, 3, 4, 6, 8>>

\* mutant: int columns are not sign-extended
intValueUnsigned(iv, size) == iv

\* v.intV = (iv << shift) >> shift
intValue(iv, size) == SignExtend(iv, size)

\* size := sizes[t]
intSize(t) == sizes[t + 1]

\* One iteration of the loop "for i, t := range types".  s holds the locals:
\* i (1-based here), dataPos, result, and cur, the data cursor before each
\* column that is decoded; ret is set by "return result" and fault by a slice
\* expression out of range.
decodeColumnsStep(payload, types, s) ==
    IF s.ret \/ s.fault \/ s.i > Len(types) THEN s
    ELSE
    LET i       == s.i
        dataPos == s.dataPos
        result  == s.result
        t       == types[i]
        ti      == I64ToInt(t)
        odd     == t[8] % 2 = 1
        cur2    == Append(s.cur, dataPos)
        \* "return result": the slice made by make([]sqliteVal, len(types)),
        \* whole, the columns not decoded left at ZeroVal
        stop    == [s EXCEPT !.ret = TRUE]
        panic   == [s EXCEPT !.fault = TRUE]
        next(dp, res) == [i |-> i + 1, dataPos |-> dp, result |-> res,
                          cur |-> cur2, ret |-> FALSE, fault |-> FALSE]
    IN
    IF ti = 0 THEN
        next(dataPos, [result EXCEPT ![i].isNull = TRUE])
    ELSE IF ti >= 1 /\ ti <= 6 THEN
        LET size == intSize(ti)
        IN  IF dataPos + size > Len(payload) THEN stop
            ELSE IF ~SliceOK(payload, dataPos, dataPos + size) THEN panic
            ELSE LET iv == foldBigEndian(Slice(payload, dataPos, dataPos + size),
                                         1, I64Zero)
                 IN  next(dataPos + size,
                          [result EXCEPT ![i].intV = intValue(iv, size),
                                         ![i].isInt = TRUE])
    ELSE IF ti = 7 THEN
        IF dataPos + 8 > Len(payload) THEN stop
        ELSE next(dataPos + 8, result)
    ELSE IF ti = 8 THEN
        next(dataPos, [result EXCEPT ![i].isInt = TRUE])
    ELSE IF ti = 9 THEN
        next(dataPos, [result EXCEPT ![i].isInt = TRUE, ![i].intV = I64(1)])
    ELSE IF ti >= 12 /\ ~odd THEN
        LET size == (ti - 12) \div 2
        IN  IF dataPos + size > Len(payload) THEN stop
            ELSE next(dataPos + size, result)
    ELSE IF ti >= 13 /\ odd THEN
        LET size == (ti - 13) \div 2
        IN  IF dataPos + size > Len(payload) THEN stop
            ELSE IF ~SliceOK(payload, dataPos, dataPos + size) THEN panic
            ELSE next(dataPos + size,
                      [result EXCEPT ![i].text =
                           Slice(payload, dataPos, dataPos + size)])
    ELSE \* no case of the switch: negative codes, 10 and 11
        next(dataPos, result)

\* k iterations of that loop from the locals s; the first half is evaluated
\* before the second starts from its result
RECURSIVE decodeColumnsLoop(_, _, _, _)
decodeColumnsLoop(payload, types, s, k) ==
    IF k = 0 THEN s
    ELSE IF k = 1 THEN decodeColumnsStep(payload, types, s)
    ELSE CHOOSE r \in { decodeColumnsLoop(payload, types, x, k - (k \div 2)) :
                            x \in {decodeColumnsLoop(payload, types, s, k \div 2)} } : TRUE

\* the whole loop, one iteration per serial type, and what parseRecord
\* returns after it: cols is the slice, end the data cursor at return
decodeColumns(payload, types, i, dataPos, result, cur) ==
    LET s == decodeColumnsLoop(payload, types,
                               [i |-> i, dataPos |-> dataPos, result |-> result,
                                cur |-> cur, ret |-> FALSE, fault |-> FALSE],
                               Len(types))
    IN  [cols |-> s.result, cur |-> s.cur, end |-> s.dataPos, fault |-> s.fault]

\* parseRecord's "return nil"
NilRecord == [ok |-> FALSE, cols |-> <<>>, n |-> 0, hdrLen |-> 0, types |-> <<>>,
              tyHi |-> 0, cur |-> <<>>, end |-> 0, fault |-> FALSE]

\* parseRecord(payload).  ok = FALSE is the nil result; cols is the returned
\* slice.  The other fields expose the locals: n and hdrLen, the serial
\* types, tyHi (one past the highest index read while reading the header),
\* cur (the data cursor before each decoded column) and end (the cursor at
\* return).
parseRecord(payload) ==
    IF Len(payload) = 0 THEN NilRecord
    ELSE
    LET h      == readVarint(payload, 0)
        hdrLen == I64ToInt(h.v)
    IN  IF h.n = 0 \/ hdrLen < h.n \/ hdrLen > Len(payload)
        THEN [NilRecord EXCEPT !.tyHi = h.rd]
        ELSE
        LET ty == readTypes(payload, h.n, hdrLen, <<>>, h.rd)
            r  == decodeColumns(payload, ty.types, 1, hdrLen,
                                [k \in 1..Len(ty.types) |-> ZeroVal], <<>>)
        IN  [ok |-> TRUE, cols |-> r.cols, n |-> h.n, hdrLen |-> hdrLen,
             types |-> ty.types, tyHi |-> ty.hi, cur |-> r.cur, end |-> r.end,
             fault |-> r.fault]

\* ------------------------------------------------------------------------
\* newSQLiteDB, page, leafCellPayload
\* ------------------------------------------------------------------------

\* const sqliteMagic = "SQLite format 3\x00"
sqliteMagic == <<83, 81, 76, 105, 116, 101, 32, 102, 111, 114, 109, 97, 116, 32, 51, 0>>

\* binary.BigEndian.Uint16(b[off:]) as an int; it panics unless two bytes exist
Uint16OK(b, off) == off >= 0 /\ off + 2 <= Len(b)

Uint16(b, off) == IF Uint16OK(b, off) THEN b[off + 1] * 256 + b[off + 2] ELSE 0

\* int(binary.BigEndian.Uint32(b[off:])); it panics unless four bytes exist
Uint32OK(b, off) == off >= 0 /\ off + 4 <= Len(b)

Uint32(b, off) ==
    IF Uint32OK(b, off)
    THEN <<0, 0, 0, 0, b[off + 1], b[off + 2], b[off + 3], b[off + 4]>>
    ELSE I64Zero

\* mutant: the header value 1 is taken as a page size of 1 byte
newSQLiteDBKeepOne(d) ==
    IF Len(d) < 100 \/ SubSeq(d, 1, 16) # sqliteMagic
    THEN [ok |-> FALSE, pageSize |-> 0]
    ELSE [ok |-> TRUE, pageSize |-> Uint16(d, 16)]

\* newSQLiteDB(data): ok = FALSE is the "not a valid SQLite 3 database" error
newSQLiteDB(d) ==
    IF Len(d) < 100 \/ SubSeq(d, 1, 16) # sqliteMagic
    THEN [ok |-> FALSE, pageSize |-> 0]
    ELSE LET ps == Uint16(d, 16)
         IN  [ok |-> TRUE, pageSize |-> IF ps = 1 THEN 65536 ELSE ps]

\* off := (n - 1) * db.pageSize, in 64 bits
pageOffset(n, ps) == I64Mul(I64Add(n, I64MinusOne), ps)

\* db.page(n) for the image d with page size ps.  ok = FALSE is the nil
\* result; fault is the panic of the slice expression db.data[off:off+ps]
\* (its bounds are compared after the sum off+ps has wrapped).
page(d, ps, n) ==
    LET off == pageOffset(n, ps)
        sum == I64Add(off, I64(ps))
        o   == I64ToInt(off)
    IN  IF I64IsNeg(off) \/ (~I64IsNeg(sum) /\ I64ToInt(sum) > Len(d))
        THEN [ok |-> FALSE, bytes |-> <<>>, off |-> 0, fault |-> FALSE]
        ELSE IF I64IsNeg(sum)
        THEN [ok |-> FALSE, bytes |-> <<>>, off |-> 0, fault |-> TRUE]
        ELSE [ok |-> TRUE, bytes |-> SubSeq(d, o + 1, o + ps), off |-> o,
              fault |-> FALSE]

\* mutant: the inline limit is not applied
maxInlinePayloadNone(ps) == Huge

\* db.maxInlinePayload()
maxInlinePayload(ps) == ps - 35

\* db.leafCellPayload(page, cellOff).  ok = FALSE is the nil result; at is
\* the offset in the page of the first payload byte; rd is one past the
\* highest page index the two readVarint calls have read.  A payloadSize
\* that is negative as an int64 makes inline negative whatever its exact
\* value, so end < pos and the result is nil.
leafCellPayload(pg, ps, cellOff) ==
    LET nil == [ok |-> FALSE, bytes |-> <<>>, at |-> 0, size |-> 0, rd |-> 0]
        a   == readVarint(pg, cellOff)
    IN  IF a.n = 0 THEN [nil EXCEPT !.rd = cellOff + a.rd]
        ELSE
        LET p1 == cellOff + a.n
            b  == readVarint(pg, p1)
        IN  IF b.n = 0 THEN [nil EXCEPT !.rd = p1 + b.rd]
            ELSE
            LET p2          == p1 + b.n
                payloadSize == I64ToInt(a.v)
                max         == maxInlinePayload(ps)
                inline      == IF payloadSize > max THEN max ELSE payloadSize
                end0        == p2 + inline
                end         == IF end0 > Len(pg) THEN Len(pg) ELSE end0
            IN  IF p2 >= end THEN [nil EXCEPT !.rd = p2, !.size = payloadSize]
                ELSE [ok |-> TRUE, bytes |-> SubSeq(pg, p2 + 1, end), at |-> p2,
                      size |-> payloadSize, rd |-> p2]

\* ------------------------------------------------------------------------
\* walkTableBTree
\* ------------------------------------------------------------------------

\* The goroutine stack is finite: a recursion this deep ends the program
\* with Go's fatal "stack overflow".
StackLimit == 66

\* "moz_cookies", "table" and "claude.ai" as bytes
MozCookies == <<109, 111, 122, 95, 99, 111, 111, 107, 105, 101, 115>>

TableLit == <<116, 97, 98, 108, 101>>

ClaudeAI == <<99, 108, 97, 117, 100, 101, 46, 97, 105>>

\* strings.Contains(s, sub)
Contains(s, sub) ==
    \E k \in 0..(Len(s) - Len(sub)) : SubSeq(s, k + 1, k + Len(sub)) = sub

\* an activation of walkTableBTree(pageNum, fn): st is "enter" before the
\* page is looked at, "leaf" / "interior" inside the loop over the cells, i
\* the loop variable
Frame(n) == [pageNum |-> n, st |-> "enter", i |-> 0]

Top == stack[Len(stack)]

Pop == SubSeq(stack, 1, Len(stack) - 1)

\* mutant: the header of page 1 is read at offset 0 like any other
hdrOffZero(n) == 0

\* hdrOff := 0; if pageNum == 1 { hdrOff = 100 }
hdrOffOf(n) == IF n = I64(1) THEN 100 ELSE 0

\* the page of the activation on top of the stack
TopPage == page(data, pageSize, Top.pageNum).bytes

\* cellCount := int(binary.BigEndian.Uint16(page[hdrOff+3:]))
cellCountOf(pg, hdrOff) == Uint16(pg, hdrOff + 3)

\* mutant: the first matching row wins
schemaFnFirst(cols, r) ==
    IF /\ r = I64Zero
       /\ Len(cols) >= 4
       /\ cols[1].text = TableLit
       /\ cols[2].text = MozCookies
       /\ cols[4].isInt
    THEN cols[4].intV
    ELSE r

\* the closure findTableRootPage passes to walkTableBTree: the new root
schemaFn(cols, r) ==
    IF /\ Len(cols) >= 4
       /\ cols[1].text = TableLit
       /\ cols[2].text = MozCookies
       /\ cols[4].isInt
    THEN cols[4].intV
    ELSE r

\* cookies[name] = value
MapPut(m, k, v) == [x \in (DOMAIN m) \cup {k} |-> IF x = k THEN v ELSE m[x]]

\* mutant: the host column is not looked at
cookieFnAnyHost(cols, m) ==
    IF Len(cols) < 6 THEN m
    ELSE IF cols[4].text # <<>> /\ cols[5].text # <<>>
         THEN MapPut(m, cols[4].text, cols[5].text)
         ELSE m

\* the closure parseCookiesFromSQLite passes to walkTableBTree: the new map
cookieFn(cols, m) ==
    IF Len(cols) < 6 THEN m
    ELSE IF ~Contains(cols[6].text, ClaudeAI) THEN m
    ELSE IF cols[4].text # <<>> /\ cols[5].text # <<>>
         THEN MapPut(m, cols[4].text, cols[5].text)
         ELSE m

\* fn(cols), for the walk of findTableRootPage or of parseCookiesFromSQLite
CallFn(cols, cell) ==
    /\ visited' = Append(visited, [phase |-> pc, pageNum |-> Top.pageNum,
                                   cell |-> cell, cols |-> cols])
    /\ root' = IF pc = "schema" THEN schemaFn(cols, root) ELSE root
    /\ cookies' = IF pc = "cookies" THEN cookieFn(cols, cookies) ELSE cookies

\* a run-time panic (or the fatal stack overflow): the program stops where
\* it is
Panic(what) ==
    /\ fault' = what
    /\ UNCHANGED <<pc, stack, root, cookies, visited>>

\* mutant: the child is not walked, the loop goes on at index next
RecurseSkip(child, next) ==
    /\ stack' = [stack EXCEPT ![Len(stack)] =
                    [pageNum |-> Top.pageNum, st |-> "interior", i |-> next]]
    /\ UNCHANGED <<pc, fault, root, cookies, visited>>

\* mutant: the right-most child is not walked, only the children of the cells
RecurseCellsOnly(child, next) ==
    IF Top.st = "enter"
    THEN /\ stack' = [stack EXCEPT ![Len(stack)] =
                         [pageNum |-> Top.pageNum, st |-> "interior", i |-> next]]
         /\ UNCHANGED <<pc, fault, root, cookies, visited>>
    ELSE IF Len(stack) >= StackLimit
    THEN /\ fault' = "stack overflow"
         /\ UNCHANGED <<pc, stack, root, cookies, visited>>
    ELSE /\ stack' = Append([stack EXCEPT ![Len(stack)] =
                                [pageNum |-> Top.pageNum, st |-> "interior",
                                 i |-> next]],
                            [pageNum |-> child, st |-> "enter", i |-> 0])
         /\ UNCHANGED <<pc, fault, root, cookies, visited>>

\* a recursive call walkTableBTree(child, fn) from the activation on top,
\* which goes on at loop index next when the call returns
Recurse(child, next) ==
    IF Len(stack) >= StackLimit
    THEN Panic("stack overflow")
    ELSE /\ stack' = Append([stack EXCEPT ![Len(stack)] =
                                [pageNum |-> Top.pageNum, st |-> "interior",
                                 i |-> next]],
                            Frame(child))
         /\ UNCHANGED <<pc, fault, root, cookies, visited>>

Walking == pc \in {"schema", "cookies"} /\ stack # <<>> /\ fault = "none"

\* mutant: a page of any other type is handled as a table leaf
WalkEnterDefaultLeaf ==
    /\ UNCHANGED trayVars
    /\ Walking
    /\ Top.st = "enter"
    /\ entered' = Append(entered, [phase |-> pc, pageNum |-> Top.pageNum])
    /\ UNCHANGED <<data, pageSize, buf, pos, src, out>>
    /\ LET pg     == page(data, pageSize, Top.pageNum)
           hdrOff == hdrOffOf(Top.pageNum)
           ret    == /\ stack' = Pop
                     /\ UNCHANGED <<pc, fault, root, cookies, visited>>
       IN  IF pg.fault THEN Panic("slice bounds out of range")
           ELSE IF ~pg.ok THEN ret
           ELSE IF Len(pg.bytes) < hdrOff + 8 THEN ret
           ELSE IF pg.bytes[hdrOff + 1] = 5 THEN
               IF ~Uint32OK(pg.bytes, hdrOff + 8) THEN Panic("index out of range")
               ELSE LET rightChild == Uint32(pg.bytes, hdrOff + 8)
                    IN  IF rightChild # I64Zero
                        THEN Recurse(rightChild, 0)
                        ELSE /\ stack' = [stack EXCEPT ![Len(stack)].st = "interior"]
                             /\ UNCHANGED <<pc, fault, root, cookies, visited>>
           ELSE /\ stack' = [stack EXCEPT ![Len(stack)].st = "leaf"]
                /\ UNCHANGED <<pc, fault, root, cookies, visited>>

\* walkTableBTree from its entry to the switch on pageType, and for an
\* interior page up to the call for the right-most child
WalkEnter ==
    /\ UNCHANGED trayVars
    /\ Walking
    /\ Top.st = "enter"
    /\ entered' = Append(entered, [phase |-> pc, pageNum |-> Top.pageNum])
    /\ UNCHANGED <<data, pageSize, buf, pos, src, out>>
    /\ LET pg     == page(data, pageSize, Top.pageNum)
           hdrOff == hdrOffOf(Top.pageNum)
           ret    == /\ stack' = Pop
                     /\ UNCHANGED <<pc, fault, root, cookies, visited>>
       IN  IF pg.fault THEN Panic("slice bounds out of range")
           ELSE IF ~pg.ok THEN ret
           ELSE IF Len(pg.bytes) < hdrOff + 8 THEN ret
           ELSE IF pg.bytes[hdrOff + 1] = 13 THEN
               /\ stack' = [stack EXCEPT ![Len(stack)].st = "leaf"]
               /\ UNCHANGED <<pc, fault, root, cookies, visited>>
           ELSE IF pg.bytes[hdrOff + 1] = 5 THEN
               IF ~Uint32OK(pg.bytes, hdrOff + 8) THEN Panic("index out of range")
               ELSE LET rightChild == Uint32(pg.bytes, hdrOff + 8)
                    IN  IF rightChild # I64Zero
                        THEN Recurse(rightChild, 0)
                        ELSE /\ stack' = [stack EXCEPT ![Len(stack)].st = "interior"]
                             /\ UNCHANGED <<pc, fault, root, cookies, visited>>
           ELSE ret

\* is the loop "for i := 0; i < cellCount; i++" of the activation on top
\* at an iteration (and not at its end or at the break)?
LoopRuns(ptrStart) ==
    /\ Top.i < cellCountOf(TopPage, hdrOffOf(Top.pageNum))
    /\ ~(ptrStart + Top.i * 2 + 2 > Len(TopPage))

\* mutant: a cell offset outside the page ends the loop (break)
afterBadCellBreak(i) == 65536

\* what the leaf loop does after a cell whose offset lies outside the page
\* ("continue"): the index of the next iteration
afterBadCell(i) == i + 1

\* one iteration of the loop of case 0x0d
WalkLeafCell ==
    /\ UNCHANGED trayVars
    /\ Walking
    /\ Top.st = "leaf"
    /\ LoopRuns(hdrOffOf(Top.pageNum) + 8)
    /\ UNCHANGED <<data, pageSize, entered, buf, pos, src, out, pc>>
    /\ LET pg      == TopPage
           pOff    == hdrOffOf(Top.pageNum) + 8 + Top.i * 2
           cellOff == Uint16(pg, pOff)
       IN  IF cellOff >= Len(pg)
           THEN /\ stack' = [stack EXCEPT ![Len(stack)].i = afterBadCell(Top.i)]
                /\ UNCHANGED <<fault, root, cookies, visited>>
           ELSE LET payload == leafCellPayload(pg, pageSize, cellOff)
                    rec     == parseRecord(payload.bytes)
                IN  IF payload.ok /\ rec.fault
                    THEN /\ fault' = "slice bounds out of range"
                         /\ UNCHANGED <<stack, root, cookies, visited>>
                    ELSE /\ stack' = [stack EXCEPT ![Len(stack)].i = Top.i + 1]
                         /\ UNCHANGED fault
                         /\ IF payload.ok /\ rec.ok
                            THEN CallFn(rec.cols, Top.i)
                            ELSE UNCHANGED <<root, cookies, visited>>

\* one iteration of the loop of case 0x05
WalkInteriorCell ==
    /\ UNCHANGED trayVars
    /\ Walking
    /\ Top.st = "interior"
    /\ LoopRuns(hdrOffOf(Top.pageNum) + 12)
    /\ UNCHANGED <<data, pageSize, entered, buf, pos, src, out>>
    /\ LET pg      == TopPage
           pOff    == hdrOffOf(Top.pageNum) + 12 + Top.i * 2
           cellOff == Uint16(pg, pOff)
           skip    == /\ stack' = [stack EXCEPT ![Len(stack)].i = Top.i + 1]
                      /\ UNCHANGED <<pc, fault, root, cookies, visited>>
       IN  IF cellOff + 4 > Len(pg) THEN skip
           ELSE LET childPage == Uint32(pg, cellOff)
                IN  IF childPage # I64Zero
                    THEN Recurse(childPage, Top.i + 1)
                    ELSE skip

\* the end of either loop: walkTableBTree returns to its caller
WalkReturn ==
    /\ UNCHANGED trayVars
    /\ Walking
    /\ \/ Top.st = "leaf" /\ ~LoopRuns(hdrOffOf(Top.pageNum) + 8)
       \/ Top.st = "interior" /\ ~LoopRuns(hdrOffOf(Top.pageNum) + 12)
    /\ stack' = Pop
    /\ UNCHANGED <<data, pageSize, pc, root, cookies, visited, entered, fault,
                   buf, pos, src, out>>

\* ------------------------------------------------------------------------
\* findTableRootPage and parseCookiesFromSQLite
\* ------------------------------------------------------------------------

EmptyMap == [x \in {} |-> <<>>]

\* parseCookiesFromSQLite up to the call db.findTableRootPage("moz_cookies"),
\* which starts walkTableBTree(1, ...)
ParseCookiesStart ==
    /\ UNCHANGED trayVars
    /\ pc = "start"
    /\ LET db == newSQLiteDB(data)
       IN  IF ~db.ok
           THEN /\ pc' = "format_error"
                /\ UNCHANGED <<pageSize, stack>>
           ELSE /\ pc' = "schema"
                /\ pageSize' = db.pageSize
                /\ stack' = <<Frame(I64(1))>>
    /\ UNCHANGED <<data, root, cookies, visited, entered, fault, buf, pos, src, out>>

\* findTableRootPage returns root; parseCookiesFromSQLite fails on 0 and
\* otherwise makes the map and starts walkTableBTree(rootPage, ...)
FindTableRootPageReturn ==
    /\ UNCHANGED trayVars
    /\ pc = "schema"
    /\ stack = <<>>
    /\ fault = "none"
    /\ IF root = I64Zero
       THEN /\ pc' = "not_found"
            /\ UNCHANGED stack
       ELSE /\ pc' = "cookies"
            /\ stack' = <<Frame(root)>>
    /\ UNCHANGED <<data, pageSize, root, cookies, visited, entered, fault,
                   buf, pos, src, out>>

\* the second walk is over: return cookies, nil
ParseCookiesReturn ==
    /\ UNCHANGED trayVars
    /\ pc = "cookies"
    /\ stack = <<>>
    /\ fault = "none"
    /\ pc' = "done"
    /\ UNCHANGED <<data, pageSize, stack, root, cookies, visited, entered, fault,
                   buf, pos, src, out>>

\* ------------------------------------------------------------------------
\* File images: the inputs of parseCookiesFromSQLite
\* ------------------------------------------------------------------------

\* page size of the images that hold a whole cookie database
PS == 256

Zeros(n) == [k \in 1..n |-> 0]

U16(n) == <<n \div 256, n % 256>>

U32(n) == <<0, 0, n \div 256, n % 256>>

RECURSIVE Concat(_)
Concat(ss) == IF ss = <<>> THEN <<>> ELSE Head(ss) \o Concat(Tail(ss))

RECURSIVE Reverse(_)
Reverse(ss) == IF ss = <<>> THEN <<>> ELSE Append(Reverse(Tail(ss)), Head(ss))

\* the 100-byte database header: magic, page size, the rest zero
FileHeader(ps) == sqliteMagic \o U16(ps) \o Zeros(82)

\* bit j (0 = least significant) of the 64-bit pattern v
BitOf(v, j) == (v[8 - (j \div 8)] \div (2 ^ (j % 8))) % 2

\* the number of significant bits of v as an unsigned 64-bit value
BitLen(v) == IF v = I64Zero THEN 0
             ELSE 1 + CHOOSE j \in 0..63 :
                        BitOf(v, j) = 1 /\ \A m \in (j + 1)..63 : BitOf(v, m) = 0

\* the canonical width of the varint of v: the fewest 7-bit groups that hold
\* it, 9 bytes for a value of more than 56 bits
VarintWidth(v) ==
    IF BitLen(v) > 56 THEN 9
    ELSE IF BitLen(v) = 0 THEN 1
    ELSE (BitLen(v) + 6) \div 7

\* 7 bits of v from bit lo upwards, as a number
Group7(v, lo) ==
    BitOf(v, lo) + 2 * BitOf(v, lo + 1) + 4 * BitOf(v, lo + 2) + 8 * BitOf(v, lo + 3)
    + 16 * BitOf(v, lo + 4) + 32 * BitOf(v, lo + 5) + 64 * BitOf(v, lo + 6)

\* the canonical varint of v as the file format defines it (the program
\* only decodes; this is what a writer of the format stores): big-endian
\* groups of 7 bits, the high bit set on every byte but the last; in the
\* 9-byte form the last byte holds the low 8 bits
PutVarint(v) ==
    LET w == VarintWidth(v)
    IN  IF w = 9
        THEN [i \in 1..9 |-> IF i = 9 THEN v[8]
                             ELSE 128 + Group7(v, 8 + 7 * (8 - i))]
        ELSE [i \in 1..w |-> (IF i < w THEN 128 ELSE 0) + Group7(v, 7 * (w - i))]

\* columns of a record: serial type and data bytes
TextCol(s) == [t |-> 13 + 2 * Len(s), b |-> s]

BlobCol(s) == [t |-> 12 + 2 * Len(s), b |-> s]

IntCol(t, bytes) == [t |-> t, b |-> bytes]

NullCol == [t |-> 0, b |-> <<>>]

\* a record: header length, serial types, column data
RecordTypes(cols) == Concat([k \in 1..Len(cols) |-> PutVarint(I64(cols[k].t))])

Record(cols) ==
    <<1 + Len(RecordTypes(cols))>> \o RecordTypes(cols)
                                   \o Concat([k \in 1..Len(cols) |-> cols[k].b])

\* a table-leaf cell: payload size, rowid, payload
LeafCell(rowid, rec) == <<Len(rec), rowid>> \o rec

\* a table-interior cell: child page, key
InteriorCell(child, key) == U32(child) \o <<key>>

\* a B-tree page of size bytes after prefix (the database header on page 1):
\* page header, cell pointer array, free space, and the cells packed at the
\* end of the page, the first cell last
BTreePage(prefix, type, right, cells, size) ==
    LET lens   == [k \in 1..Len(cells) |-> Len(cells[k])]
        total  == Len(Concat(cells))
        offOf  == [k \in 1..Len(cells) |->
                      size - Len(Concat(SubSeq(cells, 1, k)))]
        header == <<type, 0, 0>> \o U16(Len(cells)) \o U16(size - total) \o <<0>>
                  \o (IF type = 5 THEN U32(right) ELSE <<>>)
        ptrs   == Concat([k \in 1..Len(cells) |-> U16(offOf[k])])
        used   == Len(prefix) + Len(header) + Len(ptrs) + total
    IN  prefix \o header \o ptrs \o Zeros(size - used) \o Concat(Reverse(cells))

\* rows of sqlite_master: type, name, tbl_name, rootpage, sql
SchemaRow(type, name, rootpage) ==
    Record(<<TextCol(type), TextCol(name), NullCol, IntCol(1, <<rootpage>>), NullCol>>)

\* rows of moz_cookies: id, baseDomain, originAttributes, name, value, host
CookieRow(id, name, value, host) ==
    Record(<<IntCol(1, <<id>>), NullCol, NullCol, TextCol(name), TextCol(value),
             TextCol(host)>>)

IndexLit == <<105, 110, 100, 101, 120>>

\* cookie names "sk" and "org", hosts ".claude.ai" and "x.org"
NameSK == <<115, 107>>

NameOrg == <<111, 114, 103>>

HostClaude == <<46>> \o ClaudeAI

HostOther == <<120, 46, 111, 114, 103>>

\* Page 1: the schema, an index row and the table row of moz_cookies (root 2).
\* Page 2: interior, cell 0 -> page 3, right-most child page 4.
\* Page 3, page 4: leaves of moz_cookies.
TreeImage ==
    Concat(<<
      BTreePage(FileHeader(PS), 13, 0,
                <<LeafCell(1, SchemaRow(IndexLit, MozCookies, 4)),
                  LeafCell(2, SchemaRow(TableLit, MozCookies, 2))>>, PS),
      BTreePage(<<>>, 5, 4, <<InteriorCell(3, 2)>>, PS),
      BTreePage(<<>>, 13, 0,
                <<LeafCell(1, CookieRow(1, NameSK, <<65>>, HostClaude)),
                  LeafCell(2, CookieRow(2, NameOrg, <<66>>, HostOther))>>, PS),
      BTreePage(<<>>, 13, 0,
                <<LeafCell(3, CookieRow(3, NameOrg, <<67, 233>>, HostClaude)),
                  LeafCell(4, CookieRow(4, NameSK, <<68>>, HostClaude))>>, PS)
    >>)

\* Page 1: the schema with two table rows of moz_cookies (roots 3 and 2).
\* Page 2: the leaf of moz_cookies: a row of 5 columns, a row whose last
\* column is cut by the declared payload size, a row with an empty value, a
\* row of another host and two rows of the same name.
FlatImage ==
    Concat(<<
      BTreePage(FileHeader(PS), 13, 0,
                <<LeafCell(1, SchemaRow(TableLit, MozCookies, 3)),
                  LeafCell(2, SchemaRow(TableLit, MozCookies, 2))>>, PS),
      BTreePage(<<>>, 13, 0,
                <<LeafCell(1, Record(<<IntCol(1, <<1>>), NullCol, NullCol,
                                       TextCol(NameSK), TextCol(<<65>>)>>)),
                  <<10, 2>> \o CookieRow(2, NameSK, <<69>>, HostClaude),
                  LeafCell(3, CookieRow(3, NameOrg, <<>>, HostClaude)),
                  LeafCell(4, CookieRow(4, NameSK, <<70>>, HostOther)),
                  LeafCell(5, CookieRow(5, NameSK, <<71>>, HostClaude)),
                  LeafCell(6, CookieRow(6, NameSK, <<72>>, ClaudeAI))>>, PS)
    >>)

\* a copy of d with the byte at offset p replaced by v
Patch(d, p, v) == [d EXCEPT ![p + 1] = v]

\* the bytes a corrupted image may hold at a damaged offset: page numbers,
\* the two page types, a varint continuation byte, 0xff
MutVals == {0, 1, 2, 3, 4, 5, 13, 129, 255}

\* how many bytes at the end of each page (where the cells are) and at the
\* start of its B-tree header may be damaged
MutTail == 54

MutHead == 14

\* the offsets of d that may be damaged: the magic and the page size, and
\* on every page the B-tree header with the cell pointers and the cells
MutPos(d) ==
    {0, 16, 17} \cup
    UNION { LET start == (k - 1) * PS
                hdr   == IF k = 1 THEN start + 100 ELSE start
            IN  (hdr..(hdr + MutHead - 1)) \cup ((start + PS - MutTail)..(start + PS - 1))
            : k \in 1..(Len(d) \div PS) }

\* the images cut short: no header, a header only, a missing last page
Truncations(d) == { SubSeq(d, 1, n) : n \in {0, 16, 99, 100, Len(d) - 1} }

\* an image of one page of ps bytes (ps >= 100) whose B-tree header holds
\* the page type and, where there is room, the right-most child
TinyImage(ps, type, right) ==
    LET body == <<type, 0, 0, 0, 0, 0, 0, 0>> \o U32(right) \o Zeros(4)
    IN  FileHeader(ps) \o SubSeq(body, 1, ps - 100)

TinyImages ==
    { TinyImage(ps, type, right) :
        ps \in 100..113, type \in {5, 13}, right \in {0, 1, 2} }

Images ==
    {TreeImage, FlatImage}
    \cup { Patch(TreeImage, p, v) : p \in MutPos(TreeImage), v \in MutVals }
    \cup { Patch(FlatImage, p, v) : p \in MutPos(FlatImage), v \in MutVals }
    \cup Truncations(TreeImage)
    \cup TinyImages

\* ------------------------------------------------------------------------
\* The program: parseCookiesFromSQLite(data)
\* ------------------------------------------------------------------------

Init ==
    /\ TrayReady
    /\ data \in Images
    /\ pageSize = 0
    /\ pc = "start"
    /\ stack = <<>>
    /\ root = I64Zero
    /\ cookies = EmptyMap
    /\ visited = <<>>
    /\ entered = <<>>
    /\ fault = "none"
    /\ buf = <<>>
    /\ pos = 0
    /\ src = <<>>
    /\ out = <<>>

Next ==
    \/ ParseCookiesStart
    \/ WalkEnter
    \/ WalkLeafCell
    \/ WalkInteriorCell
    \/ WalkReturn
    \/ FindTableRootPageReturn
    \/ ParseCookiesReturn

Spec == Init /\ [][Next]_vars

\* ------------------------------------------------------------------------
\* readVarint on its own: readVarint(buf, pos)
\* ------------------------------------------------------------------------

\* the longest raw buffer handed to readVarint
MaxBufLen == 11

\* the 64-bit values whose highest set bit is bit k-1 and whose lower bits
\* are all 0, all 1 or alternate
BitPattern(k, f) ==
    LET B(j) == IF j = k - 1 THEN 1
                ELSE IF j > k - 1 THEN 0
                ELSE IF f = 0 THEN 0 ELSE IF f = 1 THEN 1 ELSE j % 2
    IN  [m \in 1..8 |->
            LET lo == 8 * (8 - m)
            IN  B(lo) + 2 * B(lo + 1) + 4 * B(lo + 2) + 8 * B(lo + 3) + 16 * B(lo + 4)
                + 32 * B(lo + 5) + 64 * B(lo + 6) + 128 * B(lo + 7)]

VarintValues == {I64Zero} \cup { BitPattern(k, f) : k \in 1..64, f \in {0, 1, 2} }

\* a raw buffer of len bytes: continuation bytes (cont) before and after the
\* byte at index clearAt, which has its high bit clear (none if clearAt = len)
RawBuffer(len, clearAt, cont, clear) ==
    [k \in 1..len |-> IF k - 1 = clearAt THEN clear ELSE cont]

InitVarint ==
    /\ TrayReady
    /\ \/ \E v \in VarintValues, around \in {<<<<>>, <<>>>>, <<<<129>>, <<255, 1>>>>} :
            /\ src = [kind |-> "encoded", v |-> v]
            /\ buf = around[1] \o PutVarint(v) \o around[2]
            /\ pos = Len(around[1])
       \/ \E len \in 0..MaxBufLen :
            \E clearAt \in 0..len, cont \in {128, 255}, clear \in {0, 127},
               p \in 0..(len + 1) :
                /\ src = [kind |-> "raw", v |-> I64Zero]
                /\ buf = RawBuffer(len, clearAt, cont, clear)
                /\ pos = p
    /\ pc = "varint"
    /\ out = <<>>
    /\ data = <<>>
    /\ pageSize = 0
    /\ stack = <<>>
    /\ root = I64Zero
    /\ cookies = EmptyMap
    /\ visited = <<>>
    /\ entered = <<>>
    /\ fault = "none"

\* v, n := readVarint(buf, pos)
ReadVarintCall ==
    /\ UNCHANGED trayVars
    /\ pc = "varint"
    /\ out' = readVarint(buf, pos)
    /\ pc' = "varint_done"
    /\ UNCHANGED <<data, pageSize, stack, root, cookies, visited, entered, fault,
                   buf, pos, src>>

NextVarint == ReadVarintCall

SpecVarint == InitVarint /\ [][NextVarint]_vars

\* ------------------------------------------------------------------------
\* parseRecord on its own: parseRecord(buf)
\* ------------------------------------------------------------------------

\* one column of every serial type of the format, with negative and
\* positive integers of every width, and a text long enough for a serial
\* type of two bytes
ColKinds ==
    { NullCol,
      IntCol(1, <<127>>), IntCol(1, <<128>>),
      IntCol(2, <<255, 254>>),
      IntCol(3, <<128, 0, 1>>),
      IntCol(4, <<18, 52, 86, 120>>),
      IntCol(5, <<255, 255, 255, 255, 255, 253>>),
      IntCol(6, <<128, 0, 0, 0, 0, 0, 0, 1>>),
      IntCol(6, <<0, 0, 0, 1, 0, 0, 0, 2>>),
      IntCol(7, <<64, 9, 33, 251, 84, 68, 45, 24>>),
      IntCol(8, <<>>), IntCol(9, <<>>),
      BlobCol(<<>>), BlobCol(<<1, 2>>),
      TextCol(<<>>), TextCol(<<97>>), TextCol(<<97, 98, 99>>),
      TextCol([k \in 1..58 |-> 65 + (k % 26)]) }

\* the columns that may stand before and after it
SideKinds == { NullCol, IntCol(1, <<128>>), TextCol(<<97, 98>>) }

\* how many columns may follow, and how many bytes may be cut off the end
MaxAfter == 1

MaxCut == 3

SideSeqs(n) == UNION { [1..m -> SideKinds] : m \in 0..n }

InitRecord ==
    /\ TrayReady
    /\ \E before \in SideSeqs(1), k \in ColKinds, after \in SideSeqs(MaxAfter),
          cut \in 0..MaxCut :
            LET cols == before \o <<k>> \o after
                rec  == Record(cols)
            IN  /\ cut <= Len(rec)
                /\ src = [cols |-> cols, cut |-> cut]
                /\ buf = SubSeq(rec, 1, Len(rec) - cut)
    /\ pos = 0
    /\ pc = "record"
    /\ out = <<>>
    /\ data = <<>>
    /\ pageSize = 0
    /\ stack = <<>>
    /\ root = I64Zero
    /\ cookies = EmptyMap
    /\ visited = <<>>
    /\ entered = <<>>
    /\ fault = "none"

\* cols := parseRecord(buf)
ParseRecordCall ==
    /\ UNCHANGED trayVars
    /\ pc = "record"
    /\ out' = parseRecord(buf)
    /\ pc' = "record_done"
    /\ UNCHANGED <<data, pageSize, stack, root, cookies, visited, entered, fault,
                   buf, pos, src>>

NextRecord == ParseRecordCall

SpecRecord == InitRecord /\ [][NextRecord]_vars

\* ------------------------------------------------------------------------
\* parseRecord on payloads of any bytes: parseRecord(buf)
\* ------------------------------------------------------------------------

\* the longest payload of any bytes, after its first byte
MaxPayloadTail == 4

\* the bytes such a payload is made of: serial types of no data (0, 8, 9), of
\* one byte (1, 15), a varint continuation byte, and header lengths 0..5
PayloadBytes == {0, 1, 2, 3, 4, 5, 8, 9, 15, 129}

PayloadTails == UNION { [1..m -> {0, 1, 9, 15, 129}] : m \in 0..MaxPayloadTail }

InitPayload ==
    /\ TrayReady
    /\ \/ buf = <<>>
       \/ \E b \in PayloadBytes, tail \in PayloadTails : buf = <<b>> \o tail
    /\ src = <<>>
    /\ pos = 0
    /\ pc = "record"
    /\ out = <<>>
    /\ data = <<>>
    /\ pageSize = 0
    /\ stack = <<>>
    /\ root = I64Zero
    /\ cookies = EmptyMap
    /\ visited = <<>>
    /\ entered = <<>>
    /\ fault = "none"

NextPayload == ParseRecordCall

SpecPayload == InitPayload /\ [][NextPayload]_vars

\* ------------------------------------------------------------------------
\* parseRecord on records of three columns given by their serial types
\* ------------------------------------------------------------------------

\* the serial types of the header: integer 1, null, 1-byte integer, and
\* text of 3 bytes, null, 1-byte integer
TypeLists == {<<9, 0, 1>>, <<19, 0, 1>>}

\* "abc" and two other texts of 3 bytes
Texts3 == {<<97, 98, 99>>, <<120, 121, 122>>, <<0, 255, 128>>}

\* a record of header length 4 with the serial types ty (each below 128, so
\* one byte each), whose data area is the 3 bytes text and the byte last
InitTyped ==
    /\ TrayReady
    /\ \E ty \in TypeLists, text \in Texts3, last \in 0..255 :
          /\ src = [types |-> ty, text |-> text, last |-> last]
          /\ buf = <<4>> \o ty \o text \o <<last>>
    /\ pos = 0
    /\ pc = "record"
    /\ out = <<>>
    /\ data = <<>>
    /\ pageSize = 0
    /\ stack = <<>>
    /\ root = I64Zero
    /\ cookies = EmptyMap
    /\ visited = <<>>
    /\ entered = <<>>
    /\ fault = "none"

NextTyped == ParseRecordCall

SpecTyped == InitTyped /\ [][NextTyped]_vars

\* ------------------------------------------------------------------------
\* leafCellPayload on its own: db.leafCellPayload(buf, pos), db.pageSize
\* being pageSize
\* ------------------------------------------------------------------------

\* page sizes that leave 1, 2, 5 and 29 bytes of inline payload
CellPageSizes == {36, 37, 40, 64}

\* declared payload sizes: below, at and above every inline limit, of one,
\* two and three varint bytes
CellSizes == {0, 1, 2, 3, 5, 6, 29, 30, 127, 128, 300, 16384}

\* rowid varints of one and two bytes
CellRowids == {<<1>>, <<129, 2>>}

\* bytes that tell the offsets of a page apart
Filler(n) == [k \in 1..n |-> 1 + (k % 100)]

\* a page of ps bytes with a leaf cell at cellOff: the varint of the payload
\* size, the rowid varint, then payload bytes up to the end of the page
CellPage(ps, cellOff, size, rowid) ==
    SubSeq(Zeros(cellOff) \o PutVarint(I64(size)) \o rowid \o Filler(ps), 1, ps)

InitCell ==
    /\ TrayReady
    /\ \E ps \in CellPageSizes, size \in CellSizes, rowid \in CellRowids,
          back \in {1, 2, 3, 4, 8, 20, 36} :
            /\ src = [size |-> size, rowid |-> rowid]
            /\ pageSize = ps
            /\ pos = ps - back
            /\ buf = CellPage(ps, ps - back, size, rowid)
    /\ pc = "cell"
    /\ out = <<>>
    /\ data = <<>>
    /\ stack = <<>>
    /\ root = I64Zero
    /\ cookies = EmptyMap
    /\ visited = <<>>
    /\ entered = <<>>
    /\ fault = "none"

\* payload := db.leafCellPayload(buf, pos)
LeafCellPayloadCall ==
    /\ UNCHANGED trayVars
    /\ pc = "cell"
    /\ out' = leafCellPayload(buf, pageSize, pos)
    /\ pc' = "cell_done"
    /\ UNCHANGED <<data, pageSize, stack, root, cookies, visited, entered, fault,
                   buf, pos, src>>

NextCell == LeafCellPayloadCall

SpecCell == InitCell /\ [][NextCell]_vars

\* ------------------------------------------------------------------------
\* newSQLiteDB and page on their own (SpecOpen): a buffer made of 16 bytes in
\* the place of the magic string, the two bytes of the page size and filler
\* up to a length, opened with newSQLiteDB, then page(n) for a page number n
\* with the 64 bits of a Go int
\* ------------------------------------------------------------------------

\* the page numbers asked for: -1, 0 to 5 and 9, 2^55, 2^56 + 1, 2^56 + 2,
\* 2^63 - 1 and -2^63
PageNumbers ==
    {I64MinusOne, I64(0), I64(1), I64(2), I64(3), I64(4), I64(5), I64(9),
     <<0, 128, 0, 0, 0, 0, 0, 0>>,
     <<1, 0, 0, 0, 0, 0, 0, 1>>,
     <<1, 0, 0, 0, 0, 0, 0, 2>>,
     <<127, 255, 255, 255, 255, 255, 255, 255>>,
     <<128, 0, 0, 0, 0, 0, 0, 0>>}

InitOpen ==
    /\ TrayReady
    /\ \E magic \in {sqliteMagic, [sqliteMagic EXCEPT ![16] = 1],
                     [sqliteMagic EXCEPT ![1] = 115]},
          ps \in {<<0, 0>>, <<0, 1>>, <<0, 100>>, <<1, 0>>, <<1, 255>>, <<2, 0>>},
          len \in {0, 15, 17, 99, 100, 101, 512, 1023, 1024, 65600},
          n \in PageNumbers :
            /\ src = [magic |-> magic, ps |-> ps, len |-> len, n |-> n]
            /\ buf = SubSeq(magic \o ps \o Filler(len), 1, len)
    /\ pc = "open"
    /\ pageSize = 0
    /\ pos = 0
    /\ out = <<>>
    /\ data = <<>>
    /\ stack = <<>>
    /\ root = I64Zero
    /\ cookies = EmptyMap
    /\ visited = <<>>
    /\ entered = <<>>
    /\ fault = "none"

\* db, err := newSQLiteDB(buf)
NewSQLiteDBCall ==
    /\ UNCHANGED trayVars
    /\ pc = "open"
    /\ LET db == newSQLiteDB(buf)
       IN  IF db.ok
           THEN /\ pc' = "opened"
                /\ pageSize' = db.pageSize
           ELSE /\ pc' = "open_error"
                /\ UNCHANGED pageSize
    /\ UNCHANGED <<data, stack, root, cookies, visited, entered, fault,
                   buf, pos, src, out>>

\* db.page(n)
PageCall ==
    /\ UNCHANGED trayVars
    /\ pc = "opened"
    /\ out' = page(buf, pageSize, src.n)
    /\ pc' = "page_done"
    /\ UNCHANGED <<data, pageSize, stack, root, cookies, visited, entered, fault,
                   buf, pos, src>>

SpecOpen == InitOpen /\ [][NewSQLiteDBCall \/ PageCall]_vars

\* ------------------------------------------------------------------------
\* The tray application (main.go, SpecTray): startUpdate called from the
\* menu-click goroutine and from the auto-update goroutine, the Quit
\* handler, and the doUpdate goroutines.  A context is the index of its
\* entry in ctxErr; each statement that reads or writes shared state is one
\* step.  The clicks, the end of a sleep and what loadConfig, fetchUsage and
\* findFirefoxCookies return are inputs.
\* ------------------------------------------------------------------------

\* how many times startUpdate is called in a run
MaxUpdates == 2

\* mutant: the previous update is left running
cancelCtxNoop(c) == ctxErr

\* if cancelUpdate != nil { cancelUpdate() }, for cancelUpdate = c
cancelCtx(c) == IF c = 0 THEN ctxErr ELSE [ctxErr EXCEPT ![c] = TRUE]

\* goroutine g goes to position p, its local context (if given) becoming c
Goto(g, p, c) == goroutine' = [goroutine EXCEPT ![g] = [pc |-> p, ctx |-> c]]

\* the doUpdate goroutine of context id goes to position p with the tray
\* elements todo still to set
Upd(id, p, todo) == updating' = [updating EXCEPT ![id] = [pc |-> p, todo |-> todo]]

InitTray ==
    /\ TrayReady
    /\ pc = "tray"
    /\ data = <<>>
    /\ pageSize = 0
    /\ stack = <<>>
    /\ root = I64Zero
    /\ cookies = [x \in {} |-> <<>>]
    /\ visited = <<>>
    /\ entered = <<>>
    /\ fault = "none"
    /\ buf = <<>>
    /\ pos = 0
    /\ src = <<>>
    /\ out = <<>>

\* startUpdate() is called: "Refresh now" or a successful "Import from
\* Firefox" was clicked (menu), or time.Sleep returned (auto)
StartUpdateCall(g) ==
    /\ UNCHANGED readerVars
    /\ systray # "exited"
    /\ goroutine[g].pc = "idle"
    /\ Len(ctxErr) + Cardinality({ h \in Goroutines :
           goroutine[h].pc \in {"lock", "cancel", "install"} }) < MaxUpdates
    /\ Goto(g, "lock", goroutine[g].ctx)
    /\ UNCHANGED <<cancelUpdate, updateMu, ctxErr, updating, display, systray>>

\* updateMu.Lock(), in startUpdate and in the Quit handler
UpdateMuLock(g) ==
    /\ UNCHANGED readerVars
    /\ systray # "exited"
    /\ goroutine[g].pc \in {"lock", "qlock"}
    /\ updateMu = "free"
    /\ updateMu' = g
    /\ Goto(g, IF goroutine[g].pc = "lock" THEN "cancel" ELSE "qcancel",
            goroutine[g].ctx)
    /\ UNCHANGED <<cancelUpdate, ctxErr, updating, display, systray>>

\* if cancelUpdate != nil { cancelUpdate() }, in startUpdate and in the Quit
\* handler
CancelUpdateCall(g) ==
    /\ UNCHANGED readerVars
    /\ systray # "exited"
    /\ goroutine[g].pc \in {"cancel", "qcancel"}
    /\ ctxErr' = cancelCtx(cancelUpdate)
    /\ Goto(g, IF goroutine[g].pc = "cancel" THEN "install" ELSE "qunlock",
            cancelUpdate)
    /\ UNCHANGED <<cancelUpdate, updateMu, updating, display, systray>>

\* ctx, cancel := context.WithCancel(context.Background()); cancelUpdate = cancel
StartUpdateInstall(g) ==
    /\ UNCHANGED readerVars
    /\ systray # "exited"
    /\ goroutine[g].pc = "install"
    /\ ctxErr' = Append(ctxErr, FALSE)
    /\ updating' = Append(updating, [pc |-> "none", todo |-> <<>>])
    /\ cancelUpdate' = Len(ctxErr) + 1
    /\ Goto(g, "unlock", Len(ctxErr) + 1)
    /\ UNCHANGED <<updateMu, display, systray>>

\* updateMu.Unlock(), in startUpdate and in the Quit handler
UpdateMuUnlock(g) ==
    /\ UNCHANGED readerVars
    /\ systray # "exited"
    /\ goroutine[g].pc \in {"unlock", "qunlock"}
    /\ updateMu' = "free"
    /\ Goto(g, IF goroutine[g].pc = "unlock" THEN "go" ELSE "qquit",
            goroutine[g].ctx)
    /\ UNCHANGED <<cancelUpdate, ctxErr, updating, display, systray>>

\* go doUpdate(ctx, mSession, mWeekly, mSonnet); startUpdate returns
GoDoUpdate(g) ==
    /\ UNCHANGED readerVars
    /\ systray # "exited"
    /\ goroutine[g].pc = "go"
    /\ Upd(goroutine[g].ctx, "load", <<>>)
    /\ Goto(g, "idle", goroutine[g].ctx)
    /\ UNCHANGED <<cancelUpdate, updateMu, ctxErr, display, systray>>

\* case <-mQuit.ClickedCh
QuitClicked ==
    /\ UNCHANGED readerVars
    /\ systray = "running"
    /\ goroutine["menu"].pc = "idle"
    /\ Goto("menu", "qlock", goroutine["menu"].ctx)
    /\ UNCHANGED <<cancelUpdate, updateMu, ctxErr, updating, display, systray>>

\* systray.Quit(); the handler's loop goes on
SystrayQuit ==
    /\ UNCHANGED readerVars
    /\ systray # "exited"
    /\ goroutine["menu"].pc = "qquit"
    /\ systray' = IF systray = "running" THEN "quitting" ELSE systray
    /\ Goto("menu", "idle", goroutine["menu"].ctx)
    /\ UNCHANGED <<cancelUpdate, updateMu, ctxErr, updating, display>>

\* systray.Run returns and main with it: every goroutine ends
Exit ==
    /\ UNCHANGED readerVars
    /\ systray = "quitting"
    /\ systray' = "exited"
    /\ UNCHANGED <<cancelUpdate, updateMu, ctxErr, goroutine, updating, display>>

\* doUpdate: cfg, err := loadConfig(configPath); on an error the tray is set
\* to "config error"
DoUpdateLoadConfig(id) ==
    /\ UNCHANGED readerVars
    /\ systray # "exited"
    /\ id <= Len(updating)
    /\ updating[id].pc = "load"
    /\ \E ok \in BOOLEAN :
          IF ok THEN Upd(id, "fetch", <<>>)
          ELSE Upd(id, "ui", <<"icon", "tooltip", "mSession">>)
    /\ UNCHANGED <<cancelUpdate, updateMu, ctxErr, goroutine, display, systray>>

\* doUpdate: usage, err := fetchUsage(ctx, cfg), and on a Cloudflare block
\* the refresh of the cookies from Firefox followed by a second fetchUsage.
\* With a cancelled context fetchUsage is taken to return an error.
DoUpdateFetch(id) ==
    /\ UNCHANGED readerVars
    /\ systray # "exited"
    /\ id <= Len(updating)
    /\ updating[id].pc \in {"fetch", "refetch"}
    /\ \E res \in {"ok", "cloudflare", "error"}, refreshed \in BOOLEAN :
          /\ ctxErr[id] => res = "error"
          /\ res # "cloudflare" => ~refreshed
          /\ updating[id].pc = "refetch" => ~refreshed
          /\ IF res = "ok"
             THEN Upd(id, "ui", <<"tooltip", "icon", "mSession", "mWeekly", "mSonnet">>)
             ELSE IF refreshed THEN Upd(id, "refetch", <<>>)
             ELSE Upd(id, "check", <<>>)
    /\ UNCHANGED <<cancelUpdate, updateMu, ctxErr, goroutine, display, systray>>

\* doUpdate: if err != nil { if ctx.Err() != nil { return } ... }
DoUpdateCtxErr(id) ==
    /\ UNCHANGED readerVars
    /\ systray # "exited"
    /\ id <= Len(updating)
    /\ updating[id].pc = "check"
    /\ IF ctxErr[id] THEN Upd(id, "done", <<>>)
       ELSE Upd(id, "ui", <<"icon", "tooltip", "mSession">>)
    /\ UNCHANGED <<cancelUpdate, updateMu, ctxErr, goroutine, display, systray>>

\* doUpdate: the next of systray.SetIcon, systray.SetTooltip and the
\* SetTitle of the menu items, in the order of the code; return after the last
DoUpdateSetUI(id) ==
    /\ UNCHANGED readerVars
    /\ systray # "exited"
    /\ id <= Len(updating)
    /\ updating[id].pc = "ui"
    /\ display' = [display EXCEPT ![Head(updating[id].todo)] = id]
    /\ Upd(id, IF Len(updating[id].todo) = 1 THEN "done" ELSE "ui",
           Tail(updating[id].todo))
    /\ UNCHANGED <<cancelUpdate, updateMu, ctxErr, goroutine, systray>>

NextTray ==
    \/ \E g \in Goroutines : \/ StartUpdateCall(g)
                             \/ UpdateMuLock(g)
                             \/ CancelUpdateCall(g)
                             \/ StartUpdateInstall(g)
                             \/ UpdateMuUnlock(g)
                             \/ GoDoUpdate(g)
    \/ QuitClicked
    \/ SystrayQuit
    \/ Exit
    \/ \E id \in 1..MaxUpdates :   \/ DoUpdateLoadConfig(id)
                                    \/ DoUpdateFetch(id)
                                    \/ DoUpdateCtxErr(id)
                                    \/ DoUpdateSetUI(id)

SpecTray == InitTray /\ [][NextTray]_vars

\* ------------------------------------------------------------------------
\* fetchUsage with its retries on its own (SpecFetch): src is what doFetch
\* returns at each attempt (an error message, or the empty message for
\* err == nil), pos is attempt, out holds lastErr, the delays slept, the
\* number of doFetch calls and what fetchUsage returned.  Messages are kept
\* as their bytes; delays are in seconds.
\* ------------------------------------------------------------------------

\* var retryDelays = []time.Duration{10s, 30s, 60s}
retryDelays == <<10, 30, 60>>

\* mutant: every error is retried
isRetryableAny(err) == TRUE

\* isRetryable(err): the message contains "HTTP 403", "HTTP 5",
\* "connection refused" or "EOF"
isRetryable(err) ==
    \/ Contains(err, <<72, 84, 84, 80, 32, 52, 48, 51>>)
    \/ Contains(err, <<72, 84, 84, 80, 32, 53>>)
    \/ Contains(err,
                <<99, 111, 110, 110, 101, 99, 116, 105, 111, 110, 32, 114,
                101, 102, 117, 115, 101, 100>>)
    \/ Contains(err, <<69, 79, 70>>)

\* errors of doFetch that go away: "HTTP 403: blocked", "HTTP 503: ",
\* "HTTP request failed: connection refused", "reading response: unexpected EOF"
TransientErrors ==
    {<<72, 84, 84, 80, 32, 52, 48, 51, 58, 32, 98, 108, 111, 99, 107, 101,
     100>>,
     <<72, 84, 84, 80, 32, 53, 48, 51, 58, 32>>,
     <<72, 84, 84, 80, 32, 114, 101, 113, 117, 101, 115, 116, 32, 102, 97,
     105, 108, 101, 100, 58, 32, 99, 111, 110, 110, 101, 99, 116, 105, 111,
     110, 32, 114, 101, 102, 117, 115, 101, 100>>,
     <<114, 101, 97, 100, 105, 110, 103, 32, 114, 101, 115, 112, 111, 110,
     115, 101, 58, 32, 117, 110, 101, 120, 112, 101, 99, 116, 101, 100, 32,
     69, 79, 70>>}

\* errors of doFetch that stay: "HTTP 401: ", "HTTP 429: slow down",
\* "HTTP request failed: timeout", "parsing JSON: bad"
PermanentErrors ==
    {<<72, 84, 84, 80, 32, 52, 48, 49, 58, 32>>,
     <<72, 84, 84, 80, 32, 52, 50, 57, 58, 32, 115, 108, 111, 119, 32, 100,
     111, 119, 110>>,
     <<72, 84, 84, 80, 32, 114, 101, 113, 117, 101, 115, 116, 32, 102, 97,
     105, 108, 101, 100, 58, 32, 116, 105, 109, 101, 111, 117, 116>>,
     <<112, 97, 114, 115, 105, 110, 103, 32, 74, 83, 79, 78, 58, 32, 98, 97,
     100>>}

InitFetch ==
    /\ TrayReady
    /\ src \in [1..(Len(retryDelays) + 1) ->
                   {<<>>} \cup TransientErrors \cup PermanentErrors]
    /\ pc = "fetch"
    /\ pos = 0
    /\ out = [lastErr |-> <<>>, slept |-> <<>>, calls |-> 0,
              usage |-> FALSE, err |-> <<>>, all |-> FALSE]
    /\ buf = <<>>
    /\ data = <<>>
    /\ pageSize = 0
    /\ stack = <<>>
    /\ root = I64Zero
    /\ cookies = [x \in {} |-> <<>>]
    /\ visited = <<>>
    /\ entered = <<>>
    /\ fault = "none"

\* if attempt > 0 { delay := retryDelays[attempt-1]; time.Sleep(delay) }
FetchSleep ==
    /\ UNCHANGED trayVars
    /\ pc = "sleep"
    /\ out' = [out EXCEPT !.slept = Append(out.slept, retryDelays[pos])]
    /\ pc' = "fetch"
    /\ UNCHANGED <<data, pageSize, stack, root, cookies, visited, entered, fault,
                   buf, pos, src>>

\* usage, err := doFetch(cfg) and what the loop does with it: return usage,
\* return the error, go to the next attempt, or leave the loop and return
\* "all 4 attempts failed"
FetchAttempt ==
    /\ UNCHANGED trayVars
    /\ pc = "fetch"
    /\ LET err  == src[pos + 1]
           made == [out EXCEPT !.calls = out.calls + 1]
       IN  IF err = <<>>
           THEN /\ out' = [made EXCEPT !.usage = TRUE]
                /\ pc' = "returned"
                /\ pos' = pos
           ELSE IF ~isRetryable(err)
           THEN /\ out' = [made EXCEPT !.lastErr = err, !.err = err]
                /\ pc' = "returned"
                /\ pos' = pos
           ELSE IF pos + 1 <= Len(retryDelays)
           THEN /\ out' = [made EXCEPT !.lastErr = err]
                /\ pc' = "sleep"
                /\ pos' = pos + 1
           ELSE /\ out' = [made EXCEPT !.lastErr = err, !.err = err, !.all = TRUE]
                /\ pc' = "returned"
                /\ pos' = pos + 1
    /\ UNCHANGED <<data, pageSize, stack, root, cookies, visited, entered, fault,
                   buf, src>>

SpecFetch == InitFetch /\ [][FetchSleep \/ FetchAttempt]_vars

\* ------------------------------------------------------------------------
\* Claims about readVarint (SpecVarint)
\* ------------------------------------------------------------------------

\* the bytes of buf from pos on
Available == IF pos >= Len(buf) THEN <<>> ELSE SubSeq(buf, pos + 1, Len(buf))

\* the index among the first eight available bytes of the first one whose
\* continuation bit is clear; 8 if there is none
FirstClear ==
    LET idx == { k \in 0..7 : k < Len(Available) /\ Available[k + 1] < 128 }
    IN  IF idx = {} THEN 8 ELSE CHOOSE k \in idx : \A m \in idx : k <= m

\* The value of the varint at the head of Available, bit by bit: the bytes
\* up to the first one with a clear continuation bit give 7 bits each, most
\* significant group first; a 9th byte gives its 8 bits below the 56 bits of
\* the eight bytes before it.
VarintBitsValue ==
    LET a == Available
        n == IF FirstClear < 8 THEN FirstClear + 1 ELSE 9
        B(j) == IF n = 9
                THEN IF j < 8 THEN (a[9] \div (2 ^ j)) % 2
                     ELSE (a[8 - ((j - 8) \div 7)] \div (2 ^ ((j - 8) % 7))) % 2
                ELSE IF j >= 7 * n THEN 0
                     ELSE (a[n - (j \div 7)] \div (2 ^ (j % 7))) % 2
    IN  [m \in 1..8 |->
            LET lo == 8 * (8 - m)
            IN  B(lo) + 2 * B(lo + 1) + 4 * B(lo + 2) + 8 * B(lo + 3) + 16 * B(lo + 4)
                + 32 * B(lo + 5) + 64 * B(lo + 6) + 128 * B(lo + 7)]

\* C9: decoding the canonical varint of v yields the 64-bit pattern of v and
\* its canonical width as the number of bytes consumed; and whatever the
\* bytes, a decoded value is made of the low 7 bits of the bytes up to the
\* first one with a clear continuation bit, and of all 8 bits of a 9th byte.
C9_VarintRoundTrip ==
    pc = "varint_done" =>
        /\ src.kind = "encoded" =>
              /\ out.v = src.v
              /\ out.n = VarintWidth(src.v)
        /\ out.n # 0 =>
              /\ out.n = (IF FirstClear < 8 THEN FirstClear + 1 ELSE 9)
              /\ out.v = VarintBitsValue

\* a value of 64 significant bits has been encoded in 9 bytes and decoded
C9_Witness ==
    /\ pc = "varint_done"
    /\ src.kind = "encoded"
    /\ BitLen(src.v) = 64
    /\ out.n = 9
    /\ pos > 0

\* C10: readVarint returns 0 bytes consumed exactly when fewer than 9 bytes
\* are available from pos and none of them has a clear continuation bit;
\* otherwise the count is in 1..9 and no byte at or beyond pos + count was
\* read.
C10_VarintFailure ==
    pc = "varint_done" =>
        /\ out.n = 0 <=> (Len(Available) < 9 /\ FirstClear >= Len(Available))
        /\ out.n # 0 => (out.n \in 1..9 /\ out.rd <= out.n)
        /\ pos + out.rd <= Len(buf) \/ out.rd = 0

\* a buffer of 8 continuation bytes has been refused
C10_Witness ==
    /\ pc = "varint_done"
    /\ Len(Available) = 8
    /\ FirstClear = 8
    /\ out.n = 0

\* ------------------------------------------------------------------------
\* Claims about parseRecord (SpecRecord)
\* ------------------------------------------------------------------------

\* the header length stored in the record built from src.cols
SrcHeaderLen == 1 + Len(RecordTypes(src.cols))

\* the bytes a column of serial type t consumes, by the type table of the
\* file format
ConsumedBy(t) ==
    IF t \in 1..6 THEN <<1, 2, 3, 4, 6, 8>>[t]
    ELSE IF t = 7 THEN 8
    ELSE IF t >= 12 /\ t % 2 = 0 THEN (t - 12) \div 2
    ELSE IF t >= 13 /\ t % 2 = 1 THEN (t - 13) \div 2
    ELSE 0

\* the big-endian two's-complement bytes b as a 64-bit pattern
SignedBigEndian(b) ==
    [k \in 1..8 |-> IF k <= 8 - Len(b) THEN (IF b[1] >= 128 THEN 255 ELSE 0)
                    ELSE b[k - (8 - Len(b))]]

\* the value the type table gives a column of serial type c.t with data c.b
TableValue(c) ==
    IF c.t = 0 THEN [text |-> <<>>, intV |-> I64Zero, isInt |-> FALSE, isNull |-> TRUE]
    ELSE IF c.t \in 1..6
    THEN [text |-> <<>>, intV |-> SignedBigEndian(c.b), isInt |-> TRUE, isNull |-> FALSE]
    ELSE IF c.t = 8
    THEN [text |-> <<>>, intV |-> I64Zero, isInt |-> TRUE, isNull |-> FALSE]
    ELSE IF c.t = 9
    THEN [text |-> <<>>, intV |-> I64(1), isInt |-> TRUE, isNull |-> FALSE]
    ELSE IF c.t >= 13 /\ c.t % 2 = 1
    THEN [text |-> c.b, intV |-> I64Zero, isInt |-> FALSE, isNull |-> FALSE]
    ELSE [text |-> <<>>, intV |-> I64Zero, isInt |-> FALSE, isNull |-> FALSE]

\* the offset in the record of the data of column k (1-based) of src.cols
RECURSIVE SrcDataStart(_)
SrcDataStart(k) ==
    IF k = 1 THEN SrcHeaderLen
    ELSE SrcDataStart(k - 1) + ConsumedBy(src.cols[k - 1].t)

\* C8: a well-formed record decodes to one value per serial type, in header
\* order, by the type table (0 Null; 1..6 signed big-endian integers of 1, 2,
\* 3, 4, 6, 8 bytes sign-extended to 64 bits; 7 a placeholder of 8 bytes; 8
\* and 9 the integers 0 and 1; even codes >= 12 placeholders of (code-12)/2
\* bytes; odd codes >= 13 texts of (code-13)/2 bytes), the data cursor
\* starting at the header length H and advancing by the bytes of each column.
C8_SerialTypeTable ==
    (pc = "record_done" /\ src.cut = 0) =>
        /\ out.ok
        /\ out.hdrLen = SrcHeaderLen
        /\ Len(out.cols) = Len(src.cols)
        /\ Len(out.cur) = Len(src.cols)
        /\ \A k \in 1..Len(src.cols) :
              /\ out.types[k] = I64(src.cols[k].t)
              /\ out.cols[k] = TableValue(src.cols[k])
              /\ out.cur[k] = SrcDataStart(k)
              /\ Len(src.cols[k].b) = ConsumedBy(src.cols[k].t)
        /\ out.end = Len(buf)

\* a whole record of three columns with a negative 6-byte integer between a
\* text and a negative 1-byte integer has been decoded
C8_Witness ==
    /\ pc = "record_done"
    /\ src.cut = 0
    /\ Len(src.cols) = 3
    /\ src.cols[1].t = 17
    /\ src.cols[2].t = 5
    /\ src.cols[3].t = 1
    /\ out.ok
    /\ out.cols[2].intV = <<255, 255, 255, 255, 255, 255, 255, 253>>
    /\ out.cols[3].intV = <<255, 255, 255, 255, 255, 255, 255, 128>>

\* the first column of src.cols whose data does not fit in buf (0 if all do)
SrcCutColumn ==
    LET over == { k \in 1..Len(src.cols) :
                    SrcDataStart(k) + ConsumedBy(src.cols[k].t) > Len(buf) }
    IN  IF over = {} THEN 0 ELSE CHOOSE k \in over : \A m \in over : k <= m

\* C7: when the data of a column would reach past the end of the payload,
\* parseRecord returns the columns decoded before it and no more.
C7_TruncatedRowIsCut ==
    (pc = "record_done" /\ Len(buf) >= SrcHeaderLen /\ SrcCutColumn # 0) =>
        /\ out.ok
        /\ Len(out.cols) = SrcCutColumn - 1

\* C11: parseRecord returns no row whenever the header-length varint fails
\* to decode or the header length H it declares exceeds the payload length,
\* and the serial types of a row it returns were read from no byte at or
\* beyond offset H (nor before the end of the length varint).
C11_HeaderBoundsTypes ==
    pc = "record_done" =>
        /\ (readVarint(buf, 0).n = 0 \/ I64ToInt(readVarint(buf, 0).v) > Len(buf))
               => ~out.ok
        /\ out.ok => (out.n <= out.hdrLen /\ out.tyHi <= out.hdrLen)

\* the three values Text(src.text), Null, Integer(n), n the signed value of
\* the byte src.last
TextNullInt ==
    << [text |-> src.text, intV |-> I64Zero, isInt |-> FALSE, isNull |-> FALSE],
       [text |-> <<>>, intV |-> I64Zero, isInt |-> FALSE, isNull |-> TRUE],
       [text |-> <<>>, intV |-> SignedBigEndian(<<src.last>>), isInt |-> TRUE,
        isNull |-> FALSE] >>

\* C12 as stated: a record with the serial types 0x09, 0x00, 0x01 and the
\* data "abc" and one more byte decodes to Text("abc"), Null, Integer(n).
C12_PositionalTypes9 ==
    (pc = "record_done" /\ src.types = <<9, 0, 1>>) =>
        (out.ok /\ out.cols = TextNullInt)

\* C12 amended: a record with the serial types 0x13 (text of 3 bytes), 0x00,
\* 0x01 and the data "abc" (or any 3 bytes) and one more byte decodes to
\* exactly Text of the 3 bytes, Null, Integer(n), in that order, n being the
\* signed value of the last byte.
C12_PositionalTypes19 ==
    (pc = "record_done" /\ src.types = <<19, 0, 1>>) =>
        (out.ok /\ out.cols = TextNullInt)

\* the record with types 0x13, 0x00, 0x01, the text "abc" and a last byte
\* that stands for a negative integer has been decoded
C12_Witness ==
    /\ pc = "record_done"
    /\ src.types = <<19, 0, 1>>
    /\ src.text = <<97, 98, 99>>
    /\ src.last = 200
    /\ out.ok
    /\ out.cols[1].text = <<97, 98, 99>>
    /\ out.cols[2].isNull
    /\ out.cols[3].intV = <<255, 255, 255, 255, 255, 255, 255, 200>>

\* ------------------------------------------------------------------------
\* Claims about leafCellPayload (SpecCell)
\* ------------------------------------------------------------------------

\* the offset right after the payload-size and rowid varints of the cell
SrcPayloadStart == pos + VarintWidth(I64(src.size)) + Len(src.rowid)

MinOf(S) == CHOOSE k \in S : \A m \in S : k <= m

\* C13: the payload handed to the record decoder starts right after the
\* payload-size and rowid varints and holds the bytes of the page from
\* there on, as many as the declared payload size, page_size - 35 and the end
\* of the page allow: never more than min(payload_size, page_size - 35), and
\* no byte past the end of the page.
C13_LeafTruncation ==
    (pc = "cell_done" /\ out.ok) =>
        /\ out.at = SrcPayloadStart
        /\ out.size = src.size
        /\ Len(out.bytes) = MinOf({src.size, pageSize - 35, Len(buf) - out.at})
        /\ out.bytes = SubSeq(buf, out.at + 1, out.at + Len(out.bytes))
        /\ out.rd <= out.at

\* a cell that declares more than page_size - 35 bytes has yielded exactly
\* page_size - 35 bytes although the page goes on after them
C13_Witness ==
    /\ pc = "cell_done"
    /\ out.ok
    /\ src.size > pageSize - 35
    /\ Len(out.bytes) = pageSize - 35
    /\ out.at + Len(out.bytes) < Len(buf)

\* ------------------------------------------------------------------------
\* Claims about parseCookiesFromSQLite and walkTableBTree (Spec)
\* ------------------------------------------------------------------------

\* does a visited row pass the filter of the extractor: at least 6 columns,
\* a host (column 5) containing "claude.ai", a name and a value not empty
Qualifies(cols) ==
    /\ Len(cols) >= 6
    /\ Contains(cols[6].text, ClaudeAI)
    /\ cols[4].text # <<>>
    /\ cols[5].text # <<>>

\* the positions in visited of the qualifying rows of the cookie table that
\* are named name
RowsNamed(name) ==
    { k \in 1..Len(visited) : /\ visited[k].phase = "cookies"
                              /\ Qualifies(visited[k].cols)
                              /\ visited[k].cols[4].text = name }

MaxOf(S) == CHOOSE k \in S : \A m \in S : m <= k

\* C1: when parseCookiesFromSQLite succeeds, every entry name -> value of
\* the returned map comes from a visited row of the cookie table with at
\* least 6 columns, a host containing "claude.ai" and that non-empty name and
\* value, and it is the value of the last such row in walk order.
C1_CookiesFromQualifyingRows ==
    pc = "done" =>
        \A name \in DOMAIN cookies :
            /\ RowsNamed(name) # {}
            /\ cookies[name] = visited[MaxOf(RowsNamed(name))].cols[5].text

\* a map has been returned in which a name stands for the last of several
\* qualifying rows with different values, rows of another host having been
\* visited too
C1_Witness ==
    /\ pc = "done"
    /\ \E name \in DOMAIN cookies :
          \E k \in RowsNamed(name) :
              visited[k].cols[5].text # cookies[name]
    /\ \E k \in 1..Len(visited) :
          /\ visited[k].phase = "cookies"
          /\ Len(visited[k].cols) >= 6
          /\ ~Contains(visited[k].cols[6].text, ClaudeAI)
          /\ visited[k].cols[4].text # <<>>
          /\ visited[k].cols[5].text # <<>>

\* C2: parseCookiesFromSQLite returns an error exactly when the header is
\* rejected or findTableRootPage yields 0; once the table is resolved it
\* goes on to return the map (empty if no row passes the filter) and no
\* error, so it is never stopped inside the walk of the table.
C2_ErrorOnlyWhenUnresolved ==
    /\ pc = "format_error" => ~newSQLiteDB(data).ok
    /\ pc = "not_found" => (newSQLiteDB(data).ok /\ root = I64Zero)
    /\ pc = "done" => (newSQLiteDB(data).ok /\ root # I64Zero)
    /\ pc = "cookies" => (root # I64Zero /\ fault = "none")

\* C3: no byte read of walkTableBTree, leafCellPayload, readVarint and
\* parseRecord is outside the slice read, whatever the image: the program
\* never panics with an index out of range.
C3_NoOutOfBoundsRead == fault # "index out of range"

\* C4: walkTableBTree terminates on every image: its recursion is never
\* deeper than 64 activations and never exhausts the stack.
C4_RecursionCapped == Len(stack) <= 64 /\ fault # "stack overflow"

\* the page db.page(n) as the walk reads it
PageOf(n) == page(data, pageSize, n)

\* page n is one walkTableBTree handles as a table leaf
IsLeaf(n) ==
    LET pg == PageOf(n)
    IN  /\ pg.ok
        /\ Len(pg.bytes) >= hdrOffOf(n) + 8
        /\ pg.bytes[hdrOffOf(n) + 1] = 13

\* page n is one walkTableBTree handles as a table interior page
IsInterior(n) ==
    LET pg == PageOf(n)
    IN  /\ pg.ok
        /\ Len(pg.bytes) >= hdrOffOf(n) + 12
        /\ pg.bytes[hdrOffOf(n) + 1] = 5

\* the child pointers of page n as pairs <<slot, page number>>: slot -1 is
\* the right-most child, slot i the cell i of the pointer array that lies in
\* the page with its four pointer bytes
ChildPointers(n) ==
    IF ~IsInterior(n) THEN {}
    ELSE LET pg    == PageOf(n).bytes
             h     == hdrOffOf(n)
             cc    == cellCountOf(pg, h)
             slots == (Len(pg) - h - 12) \div 2
             last  == (IF cc < slots THEN cc ELSE slots) - 1
             cells == { i \in 0..last : Uint16(pg, h + 12 + 2 * i) + 4 <= Len(pg) }
         IN  {<<-1, Uint32(pg, h + 8)>>}
                 \cup { <<i, Uint32(pg, Uint16(pg, h + 12 + 2 * i))>> : i \in cells }

\* the pointers of page n that name a page (0 means absent)
Edges(n) == { <<n, c[1], c[2]>> : c \in { d \in ChildPointers(n) : d[2] # I64Zero } }

\* the pages reachable from the pages of S through child pointers
RECURSIVE ReachFrom(_)
ReachFrom(S) ==
    LET T == S \cup { e[3] : e \in UNION { Edges(n) : n \in S } }
    IN  IF T = S THEN S ELSE ReachFrom(T)

\* the pages reachable from r form a tree: no pointer leads back to r and no
\* two pointers lead to the same page
TreeShaped(r) ==
    LET E == UNION { Edges(n) : n \in ReachFrom({r}) }
    IN  \A e1 \in E : /\ e1[3] # r
                      /\ \A e2 \in E : e1[3] = e2[3] => e1 = e2

\* how many times walkTableBTree was entered for page n during a walk
Entries(phase, n) ==
    Cardinality({ k \in 1..Len(entered) :
                    entered[k].phase = phase /\ entered[k].pageNum = n })

\* every leaf reachable from r was entered exactly once during the walk
LeavesOnce(phase, r) ==
    \A n \in ReachFrom({r}) : IsLeaf(n) => Entries(phase, n) = 1

\* walkTableBTree is never entered for page 0
NeverPageZero == \A k \in 1..Len(entered) : entered[k].pageNum # I64Zero

CellRow(pg, h, j) ==
    LET cellOff == Uint16(pg, h + 8 + j * 2)
        payload == leafCellPayload(pg, pageSize, cellOff)
    IN  IF cellOff >= Len(pg) \/ ~payload.ok THEN NilRecord
        ELSE parseRecord(payload.bytes)

\* the cells below index i of the leaf page pg whose pointer lies in the
\* page and is counted by cell_count, and of these the ones with a record
CellsBelow(pg, h, i) ==
    LET slots == (Len(pg) - h - 8) \div 2
        cc    == cellCountOf(pg, h)
        m     == IF i < slots THEN i ELSE slots
    IN  0..((IF m < cc THEN m ELSE cc) - 1)

RowsBelow(pg, h, i) == { j \in CellsBelow(pg, h, i) : CellRow(pg, h, j).ok }

\* C6: a malformed cell affects only that cell.  When the loop over the
\* cells of a leaf page has ended, the rows the callback has received last
\* are those of all the cells of the page that have a record, in cell order,
\* whatever malformed cells lie between them.
C6_MalformedCellIsLocal ==
    (/\ pc \in {"schema", "cookies"}
     /\ stack # <<>>
     /\ Top.st = "leaf"
     /\ ~LoopRuns(hdrOffOf(Top.pageNum) + 8)) =>
        \A pg \in {TopPage} :
        \A R \in {[j \in CellsBelow(pg, hdrOffOf(Top.pageNum), Top.i) |->
                      CellRow(pg, hdrOffOf(Top.pageNum), j)]} :
        \A J \in {{ j \in DOMAIN R : R[j].ok }} :
            /\ Len(visited) >= Cardinality(J)
            /\ \A j \in J :
                  visited[Len(visited) - Cardinality(J) + Cardinality({ m \in J : m <= j })]
                      = [phase |-> pc, pageNum |-> Top.pageNum, cell |-> j,
                         cols |-> R[j].cols]

\* the loop over a leaf page of the cookie table has ended after a cell
\* whose offset lies outside the page, and the callback has received the rows
\* of cells that come after it, the last cell of the page among them
C6_Witness ==
    /\ pc = "cookies"
    /\ stack # <<>>
    /\ Top.st = "leaf"
    /\ ~LoopRuns(hdrOffOf(Top.pageNum) + 8)
    /\ LET pg == TopPage
           h  == hdrOffOf(Top.pageNum)
       IN  /\ Top.i - 1 \in RowsBelow(pg, h, Top.i)
           /\ \E j \in CellsBelow(pg, h, Top.i) :
                 /\ j < Top.i - 1
                 /\ Uint16(pg, h + 8 + j * 2) >= Len(pg)
           /\ visited # <<>>
           /\ visited[Len(visited)].cell = Top.i - 1

\* the walk in progress (or just returned): its phase and its root page
WalkPhase == IF pc = "schema" THEN "schema" ELSE "cookies"

WalkRoot == IF pc = "schema" THEN I64(1) ELSE root

\* the positions in visited of the rows the walk has delivered from the
\* pages of S
RowsFrom(S) ==
    { k \in 1..Len(visited) :
        visited[k].phase = WalkPhase /\ visited[k].pageNum \in S }

\* the walk has entered every page of S once and has returned from it
WalkedAndLeft(S) ==
    \A m \in S : /\ Entries(WalkPhase, m) = 1
                 /\ \A d \in 1..Len(stack) : stack[d].pageNum # m

\* the activation below another on the stack is in its interior loop and
\* the one above it walks the right-most child when the loop index is 0,
\* the child of cell i - 1 when it is i
CalledInOrder ==
    \A d \in 1..(Len(stack) - 1) :
        /\ stack[d].st = "interior"
        /\ \A pg \in {PageOf(stack[d].pageNum).bytes} :
           \A h \in {hdrOffOf(stack[d].pageNum)} :
              stack[d + 1].pageNum =
                  IF stack[d].i = 0 THEN Uint32(pg, h + 8)
                  ELSE Uint32(pg, Uint16(pg, h + 12 + 2 * (stack[d].i - 1)))

\* on the pages of a tree, once a row under a child pointer has been
\* delivered, the walk under each earlier pointer of the same page (the
\* right-most child being the earliest, then the cells in array order) has
\* returned, and every row it delivered comes before
DeliveredInOrder ==
    (/\ pc \in {"schema", "cookies", "done"}
     /\ IsInterior(WalkRoot)
     /\ \E k \in 1..Len(visited) : visited[k].phase = WalkPhase
     /\ TreeShaped(WalkRoot)) =>
        \A n \in ReachFrom({WalkRoot}) : \A E \in {Edges(n)} :
            \A e1 \in E : \A e2 \in E :
                e1[2] < e2[2] =>
                    \A A \in {RowsFrom(ReachFrom({e1[3]}))} :
                    \A B \in {RowsFrom(ReachFrom({e2[3]}))} :
                        B # {} =>
                            /\ \A a \in A : \A b \in B : a < b
                            /\ WalkedAndLeft(ReachFrom({e1[3]}))

\* C14: on an interior page walkTableBTree recurses into the right-most
\* child first and then into the child of each cell in array order, so every
\* row under the right-most child is delivered before any row under cell 0,
\* and rows under cell i before rows under cell j for i < j.
C14_RightMostFirst == CalledInOrder /\ DeliveredInOrder

\* the walk of a cookie table that is a tree has returned, having delivered
\* rows from under the right-most child of the root and from under its cell 0
C14_Witness ==
    /\ pc = "done"
    /\ TreeShaped(root)
    /\ \E e1 \in Edges(root) : \E e2 \in Edges(root) :
          /\ e1[2] = -1
          /\ e2[2] = 0
          /\ RowsFrom(ReachFrom({e1[3]})) # {}
          /\ RowsFrom(ReachFrom({e2[3]})) # {}

\* the positions in visited of the rows of the schema walk whose column 0 is
\* "table", whose column 1 is "moz_cookies" and whose column 3 is an integer
SchemaMatches ==
    { k \in 1..Len(visited) : /\ visited[k].phase = "schema"
                              /\ Len(visited[k].cols) >= 4
                              /\ visited[k].cols[1].text = TableLit
                              /\ visited[k].cols[2].text = MozCookies
                              /\ visited[k].cols[4].isInt }

\* C15: findTableRootPage("moz_cookies") walks the tree rooted at page 1;
\* its result is the column-3 integer of the last visited row whose column 0
\* is "table" and whose column 1 is the name, and 0 if no visited row
\* matches.  The same holds of the running value during the walk.
C15_LastMatchingRow ==
    /\ pc = "schema" => \A k \in 1..Len(entered) : entered[k].phase = "schema"
    /\ (entered # <<>> /\ pc # "start") =>
           (entered[1].phase = "schema" /\ entered[1].pageNum = I64(1))
    /\ pc \in {"schema", "cookies", "not_found", "done"} =>
           root = IF SchemaMatches = {} THEN I64Zero
                  ELSE visited[MaxOf(SchemaMatches)].cols[4].intV

\* findTableRootPage has returned the root of the second of two matching
\* rows that give different roots
C15_Witness ==
    /\ pc = "cookies"
    /\ \E k \in SchemaMatches : visited[k].cols[4].intV # root
    /\ MaxOf(SchemaMatches) > 1

\* the activation on top is in the loop of a leaf whose cell count makes the
\* cell pointer array end beyond the page
OversizedLeaf ==
    /\ pc \in {"schema", "cookies"}
    /\ stack # <<>>
    /\ Top.st = "leaf"
    /\ hdrOffOf(Top.pageNum) + 8 + 2 * cellCountOf(TopPage, hdrOffOf(Top.pageNum))
           > Len(TopPage)

\* C18: for a leaf page whose declared cell count makes the cell pointer
\* array extend past the end of the page, walkTableBTree yields zero rows
\* from that page and raises no fault.
C18_OversizedCountYieldsNothing ==
    OversizedLeaf =>
        /\ fault = "none"
        /\ \A k \in 1..Len(visited) :
              ~(visited[k].phase = pc /\ visited[k].pageNum = Top.pageNum)

\* page n exists and its type byte is neither 0x0d nor 0x05
OtherType(n) ==
    \E pg \in {PageOf(n)} :
        /\ pg.ok
        /\ Len(pg.bytes) > hdrOffOf(n)
        /\ pg.bytes[hdrOffOf(n) + 1] \notin {13, 5}

\* C19: a page whose type byte is neither 0x0d nor 0x05 is ignored by
\* walkTableBTree: its activation returns from the entry without a loop and
\* with no call below it, and the callback is invoked for no cell of it.
C19_OtherTypesIgnored ==
    pc \in {"schema", "cookies", "not_found", "done"} =>
        /\ \A d \in 1..Len(stack) :
              OtherType(stack[d].pageNum) =>
                  (d = Len(stack) /\ stack[d].st = "enter")
        /\ \A n \in { visited[k].pageNum : k \in 1..Len(visited) } : ~OtherType(n)

\* a walk of the cookie table that came to a page of another type has
\* returned
C19_Witness ==
    /\ pc = "done"
    /\ \E k \in 1..Len(entered) :
          entered[k].phase = "cookies" /\ OtherType(entered[k].pageNum)

\* one step of the walk on the page pg of the activation on top, the header
\* being at offset h of the page: what the step does is told by the type
\* byte at h, the cell count at h + 3, the right-most child at h + 8, the
\* pointer array at h + 8 (leaf) or h + 12 (interior), and the cell at the
\* offset the pointer gives, counted from the start of the page
StepReadsHeaderAt(pg, h) ==
    LET type  == pg[h + 1]
        count == pg[h + 4] * 256 + pg[h + 5]
        i     == Top.i
        down  == /\ Len(stack') = Len(stack) + 1
                 /\ stack'[Len(stack)].i = (IF Top.st = "enter" THEN 0 ELSE i + 1)
    IN  /\ (Top.st = "enter" /\ type = 13) =>
               stack' = [stack EXCEPT ![Len(stack)].st = "leaf"]
        /\ (Top.st = "enter" /\ type = 5) =>
               IF Uint32(pg, h + 8) = I64Zero
               THEN stack' = [stack EXCEPT ![Len(stack)].st = "interior"]
               ELSE \/ fault' = "stack overflow"
                    \/ down /\ stack'[Len(stack')] = Frame(Uint32(pg, h + 8))
        /\ (Top.st = "enter" /\ type \notin {5, 13}) => stack' = Pop
        /\ (Top.st = "leaf" /\ visited' # visited) =>
               /\ i < count
               /\ \A row \in {visited'[Len(visited')]} :
                     /\ row.pageNum = Top.pageNum
                     /\ row.cell = i
                     /\ row.cols = parseRecord(leafCellPayload(pg, pageSize,
                                       Uint16(pg, h + 8 + 2 * i)).bytes).cols
        /\ (Top.st = "interior" /\ Len(stack') > Len(stack)) =>
               /\ i < count
               /\ down
               /\ stack'[Len(stack')] = Frame(Uint32(pg, Uint16(pg, h + 12 + 2 * i)))
        /\ (Top.st \in {"leaf", "interior"} /\ Len(stack') < Len(stack)) =>
               \/ i >= count
               \/ h + (IF Top.st = "leaf" THEN 8 ELSE 12) + 2 * i + 2 > Len(pg)

\* C20: walkTableBTree reads the page header at offset 100 on page 1 and at
\* offset 0 on every other page: the page type at the header offset, the
\* cell count at +3..4, the cell pointer array from +8 on a leaf and +12 on
\* an interior page, the right-most child at +8..11; the cell pointers are
\* offsets from the start of the page on every page, page 1 included.
C20_HeaderLayout ==
    [][ (Walking /\ PageOf(Top.pageNum).ok /\ Len(TopPage) >= 112) =>
            StepReadsHeaderAt(TopPage, IF Top.pageNum = I64(1) THEN 100 ELSE 0) ]_vars

\* the walk of the cookie table is below an interior page, in the loop of a
\* leaf from which it has delivered a row, the schema walk having delivered
\* a row of page 1
C20_Witness ==
    /\ pc = "cookies"
    /\ Len(stack) = 2
    /\ stack[1].st = "interior"
    /\ stack[1].i > 0
    /\ Top.st = "leaf"
    /\ visited # <<>>
    /\ visited[1].phase = "schema"
    /\ visited[Len(visited)].pageNum = Top.pageNum

\* ------------------------------------------------------------------------
\* Claims about newSQLiteDB and page (SpecOpen)
\* ------------------------------------------------------------------------

\* page number src.n is one for which (n - 1) * pageSize is negative or
\* (n - 1) * pageSize + pageSize is beyond the buffer, the products and sums
\* being those of the integers
SrcPageOutside ==
    LET k == I64ToInt(src.n)
    IN  /\ pageSize # 0
        /\ \/ k < 1
           \/ k > Len(buf) + 1
           \/ (k - 1) * pageSize + pageSize > Len(buf)

\* C16: page(n) returns none when (n-1)*page_size is negative or
\* (n-1)*page_size + page_size exceeds the buffer length, and otherwise
\* exactly the page_size bytes of the buffer from offset (n-1)*page_size;
\* it never returns a slice extending past the buffer.
C16_PageWithinBuffer ==
    pc = "page_done" =>
        /\ ~out.fault
        /\ SrcPageOutside => ~out.ok
        /\ ~SrcPageOutside =>
               /\ out.ok
               /\ Len(out.bytes) = pageSize
               /\ \A k \in {IF pageSize = 0 THEN 0
                            ELSE (I64ToInt(src.n) - 1) * pageSize} :
                      out.bytes = SubSeq(buf, k + 1, k + pageSize)
        /\ out.ok => out.off + Len(out.bytes) <= Len(buf)

\* C17: newSQLiteDB accepts a buffer only if it begins with the 16-byte
\* magic string and holds a full 100-byte header, and fails with the format
\* error otherwise; on success page_size is the big-endian 16-bit value at
\* offsets 16-17, the value 1 standing for 65536.
C17_HeaderAccepted ==
    /\ pc = "open_error" <=>
           (pc # "open" /\ (src.magic # sqliteMagic \/ src.len < 100))
    /\ pc \in {"opened", "page_done"} =>
           pageSize = IF src.ps = <<0, 1>> THEN 65536
                      ELSE src.ps[1] * 256 + src.ps[2]

\* a buffer whose header gives the page size 1 has been accepted
C17_Witness == pc = "opened" /\ src.ps = <<0, 1>> /\ Len(buf) = 100

\* ------------------------------------------------------------------------
\* Claims about the tray application (SpecTray)
\* ------------------------------------------------------------------------

\* the contexts made so far that are not cancelled
LiveContexts == { c \in 1..Len(ctxErr) : ~ctxErr[c] }

\* C21: under any interleaving of the startUpdate calls of the menu-click
\* goroutine and of the auto-update goroutine, a startUpdate installs its
\* context only after the context of the update started before is cancelled,
\* so at most one update context is uncancelled at any moment; and
\* systray.Quit is called only after the Quit handler has cancelled the
\* update that was current when it held the mutex.
C21_OneLiveUpdate ==
    [][ /\ Cardinality(LiveContexts') <= 1
        /\ Len(ctxErr') > Len(ctxErr) =>
               /\ LiveContexts = {}
               /\ cancelUpdate' = Len(ctxErr')
               /\ \A c \in 1..Len(ctxErr) : c <= cancelUpdate
        /\ (goroutine["menu"].pc = "qcancel" /\ goroutine'["menu"].pc # "qcancel") =>
               /\ updateMu = "menu"
               /\ goroutine'["menu"].ctx = cancelUpdate
        /\ (systray = "running" /\ systray' = "quitting") =>
               \A c \in {goroutine["menu"].ctx} : c = 0 \/ ctxErr[c]
      ]_vars

\* systray.Quit has been called after the Quit handler cancelled the second
\* of two updates, one started by each goroutine, the first of which had
\* been cancelled by the startUpdate of the second
C21_Witness ==
    /\ systray = "quitting"
    /\ Len(ctxErr) = 2
    /\ goroutine["menu"].ctx = 2
    /\ goroutine["auto"].ctx = 1
    /\ updating[1].pc # "none"

\* C22: a doUpdate whose context has been cancelled (by Quit or by a newer
\* startUpdate) does not update the UI: once its context is cancelled it
\* sets no icon, tooltip or menu-item title, so a superseded update never
\* overwrites what a newer update displayed.
C22_CancelledUpdateIsSilent ==
    [][ \A e \in Elements :
            display'[e] # display[e] =>
                /\ ~ctxErr[display'[e]]
                /\ display'[e] > display[e] ]_vars

\* ------------------------------------------------------------------------
\* Claims about fetchUsage (SpecFetch)
\* ------------------------------------------------------------------------

\* C23: fetchUsage makes at most 4 attempts, sleeps 10 s, 30 s and 60 s in
\* that order between consecutive attempts, returns at the first attempt
\* that succeeds or fails with an error that is not retryable, and returns
\* "all attempts failed" only after exactly 4 retryable failures.
C23_RetrySchedule ==
    \A stop \in {{ i \in 1..4 : src[i] \notin TransientErrors }} :
    \A k \in {IF stop = {} THEN 4 ELSE CHOOSE i \in stop : \A j \in stop : i <= j} :
        /\ out.calls <= k
        /\ out.slept = SubSeq(<<10, 30, 60>>, 1, Len(out.slept))
        /\ Len(out.slept) \in {out.calls - 1, out.calls}
        /\ pc = "returned" =>
               /\ out.calls = k
               /\ Len(out.slept) = k - 1
               /\ out.usage <=> src[k] = <<>>
               /\ out.err = (IF out.usage THEN <<>> ELSE src[k])
               /\ out.all <=> stop = {}

\* fetchUsage has returned "all attempts failed" after four attempts and
\* the three delays
C23_Witness ==
    /\ pc = "returned"
    /\ out.all
    /\ out.calls = 4
    /\ out.slept = <<10, 30, 60>>
    /\ src[1] # src[4]

====
